---- MODULE Spec2Model ----
(***************************************************************************)
(* The action-language interpreter of migi (src/src/migi/automation/       *)
(* engine.py): the extractor _split_multi_actions, the builtin parser      *)
(* _parse_builtin_action, the coordinate normalizer _point_to_screen_xy /  *)
(* _box_to_screen_xy and the dispatcher execute_pyautogui_action; around   *)
(* them the parser backends of parse_and_execute_action, the invocation    *)
(* auto_screen_operation with capture_screenshot and the model call, the   *)
(* configuration of config.py (resolve_runtime_config) and the entry       *)
(* point main of cli.py.                                                   *)
(*                                                                         *)
(* Python str values are sequences of one-character strings, so that       *)
(* strip, lower, startswith, slicing and the regular expressions are       *)
(* computed character by character.  Python numbers are exact rationals    *)
(* [n |-> numerator, d |-> denominator > 0]; for the magnitudes used here  *)
(* the float arithmetic of the source is exact up to the final round().    *)
(***************************************************************************)
EXTENDS Integers, Sequences, FiniteSets, TLC

VARIABLES
    pc,             \* position of the running call
    arg,            \* arguments of the function under execution
    ret,            \* its return value
    env,            \* host: sysname (os.uname), screen_height (pyautogui.size)
    responses,      \* execute_pyautogui_action: the command list
    index,          \* execute_pyautogui_action: commands of the loop started so far
    result_info,    \* execute_pyautogui_action: the step log
    ops,            \* every pyautogui / pyperclip / time.sleep call made, in order
    response,       \* parse_and_execute_action: the model's text
    action_strings, \* parse_and_execute_action: the extracted expressions
    parsed_all,     \* parse_and_execute_action: the parsed commands
    entry,          \* the function that was called from outside
    _mss_instance   \* engine.py: the global that holds the screen-capture handle

vars == <<pc, arg, ret, env, responses, index, result_info, ops,
          response, action_strings, parsed_all, entry, _mss_instance>>

\* Python's None, and a value that is not None
None == [some |-> FALSE, v |-> << >>]
Some(v) == [some |-> TRUE, v |-> v]

---------------------------------------------------------------------------
(* Bounds of the model.                                                    *)

MaxNum == 5         \* numerators of the points and boxes drawn: -MaxNum..MaxNum
SmallScale == 2     \* the small scale factor the point/box sweep runs under
MaxBatch == 3       \* longest list of the core commands in the dispatcher sweep
MaxPair == 2        \* longest list of any sample commands in the dispatcher sweep

---------------------------------------------------------------------------
(* Python str operations.                                                  *)

\* the least element of S, or none when S is empty
LeastOr(none, S) == IF S = {} THEN none ELSE CHOOSE x \in S : \A y \in S : x <= y

WhiteSpace == {" ", "\t", "\n", "\r", "\f"}

UpperCase == <<"A", "B", "C", "D", "E", "F", "G", "H", "I", "J", "K", "L", "M", "N", "O", "P", "Q", "R", "S", "T", "U", "V", "W", "X", "Y", "Z">>
LowerCase == <<"a", "b", "c", "d", "e", "f", "g", "h", "i", "j", "k", "l", "m", "n", "o", "p", "q", "r", "s", "t", "u", "v", "w", "x", "y", "z">>
Digits == <<"0", "1", "2", "3", "4", "5", "6", "7", "8", "9">>

\* the lower-case letter of each upper-case one
ToLower ==
    [c \in {UpperCase[i] : i \in 1..Len(UpperCase)} |->
        LowerCase[CHOOSE i \in 1..Len(UpperCase) : UpperCase[i] = c]]

LowerChar(c) == IF c \in DOMAIN ToLower THEN ToLower[c] ELSE c

\* (SubSeq makes the value a tuple)
lower(s) == SubSeq([i \in 1..Len(s) |-> LowerChar(s[i])], 1, Len(s))

\* str.strip(): the text between the first and the last non-whitespace character
strip(s) ==
    LET keep == {i \in 1..Len(s) : s[i] \notin WhiteSpace}
    IN  IF keep = {} THEN << >>
        ELSE SubSeq(s, CHOOSE i \in keep : \A j \in keep : i <= j,
                       CHOOSE i \in keep : \A j \in keep : j <= i)

\* s[p:].startswith(pat), p counted from 1
startswith_at(s, p, pat) ==
    /\ p >= 1
    /\ p + Len(pat) - 1 <= Len(s)
    /\ \A k \in 1..Len(pat) : s[p + k - 1] = pat[k]

startswith(s, pat) == startswith_at(s, 1, pat)

endswith(s, pat) == startswith_at(s, Len(s) - Len(pat) + 1, pat)

\* first position >= from where pat occurs in s, 0 when there is none
find(s, pat, from) ==
    LET hits == {p \in from..(Len(s) - Len(pat) + 1) : startswith_at(s, p, pat)}
    IN  IF hits = {} THEN 0 ELSE CHOOSE p \in hits : \A q \in hits : p <= q

contains(s, pat) == find(s, pat, 1) > 0

RECURSIVE NatToStr(_)
NatToStr(n) ==
    IF n < Len(Digits) THEN <<Digits[n + 1]>>
    ELSE NatToStr(n \div Len(Digits)) \o <<Digits[(n % Len(Digits)) + 1]>>

\* str(n) of an int, as an f-string formats it
IntToStr(n) == IF n < 0 THEN <<"-">> \o NatToStr(-n) ELSE NatToStr(n)

---------------------------------------------------------------------------
(* Numbers.                                                                *)

Num(k) == [n |-> k, d |-> 1]

Abs(k) == IF k < 0 THEN -k ELSE k

\* abs(v) <= bound, bound an int
AbsLe(v, bound) == Abs(v.n) <= bound * v.d

\* Python's round() of num/den (den > 0): to the nearest int, a tie to the even one
round(num, den) ==
    LET q == num \div den
        r == num - q * den
    IN  IF 2 * r < den THEN q
        ELSE IF 2 * r > den THEN q + 1
        ELSE IF q % 2 = 0 THEN q ELSE q + 1

COORDINATE_SCALE == 1000

---------------------------------------------------------------------------
(* Coordinate normalizer.                                                  *)

\* The magnitude test with the bounds excluded.
point_to_screen_xy_exclusive(point, image_width, image_height, scale_factor) ==
    LET x == point[1]
        y == point[2]
    IN  IF Abs(x.n) < scale_factor * x.d /\ Abs(y.n) < scale_factor * y.d
        THEN <<round(x.n * image_width, x.d * scale_factor),
               round(y.n * image_height, y.d * scale_factor)>>
        ELSE <<round(x.n, x.d), round(y.n, y.d)>>

_point_to_screen_xy(point, image_width, image_height, scale_factor) ==
    LET x == point[1]
        y == point[2]
    IN  IF AbsLe(x, scale_factor) /\ AbsLe(y, scale_factor)
        THEN <<round(x.n * image_width, x.d * scale_factor),
               round(y.n * image_height, y.d * scale_factor)>>
        ELSE <<round(x.n, x.d), round(y.n, y.d)>>

\* (a + b) / 2
Mid(a, b) == [n |-> a.n * b.d + b.n * a.d, d |-> 2 * a.d * b.d]

\* The magnitude test made on the corners: a corner outside the scale makes
\* the center be taken as pixels.
box_to_screen_xy_corners(box, image_width, image_height, scale_factor) ==
    IF Len(box) = 4
    THEN LET c == <<Mid(box[1], box[3]), Mid(box[2], box[4])>>
         IN  IF \A i \in 1..4 : AbsLe(box[i], scale_factor)
             THEN _point_to_screen_xy(c, image_width, image_height, scale_factor)
             ELSE <<round(c[1].n, c[1].d), round(c[2].n, c[2].d)>>
    ELSE _point_to_screen_xy(box, image_width, image_height, scale_factor)

_box_to_screen_xy(box, image_width, image_height, scale_factor) ==
    IF Len(box) = 4
    THEN _point_to_screen_xy(<<Mid(box[1], box[3]), Mid(box[2], box[4])>>,
                             image_width, image_height, scale_factor)
    ELSE _point_to_screen_xy(box, image_width, image_height, scale_factor)

---------------------------------------------------------------------------
(* Values of a command's action_inputs: a str, a list of numbers, or the   *)
(* key being absent.                                                       *)

NoValue == [t |-> "none", s |-> << >>, l |-> << >>]
Str(s) == [t |-> "str", s |-> s, l |-> << >>]
List(l) == [t |-> "list", s |-> << >>, l |-> l]

\* Python truthiness: a non-empty str or list
Truthy(v) == (v.t = "str" /\ v.s # << >>) \/ (v.t = "list" /\ v.l # << >>)

InputKeys == {"start_box", "end_box", "content", "key", "direction"}

NoInputs == [k \in InputKeys |-> NoValue]

Command(action_type, action_inputs) ==
    [action_type |-> action_type, action_inputs |-> action_inputs]

\* str.split(): the maximal runs of non-whitespace characters
RECURSIVE split(_)
split(s) ==
    LET keep == {i \in 1..Len(s) : s[i] \notin WhiteSpace}
    IN  IF keep = {} THEN << >>
        ELSE LET a == CHOOSE i \in keep : \A j \in keep : i <= j
                 gaps == {i \in a..Len(s) : s[i] \in WhiteSpace}
                 b == IF gaps = {} THEN Len(s) + 1
                      ELSE CHOOSE i \in gaps : \A j \in gaps : i <= j
             IN  <<SubSeq(s, a, b - 1)>> \o split(SubSeq(s, b, Len(s)))

\* sep.join(parts)
RECURSIVE join(_, _)
join(sep, parts) ==
    IF parts = << >> THEN << >>
    ELSE IF Len(parts) = 1 THEN parts[1]
    ELSE parts[1] \o sep \o join(sep, Tail(parts))

\* the pieces of s between the occurrences of the character c
RECURSIVE split_on(_, _)
split_on(s, c) ==
    LET hits == {i \in 1..Len(s) : s[i] = c}
    IN  IF hits = {} THEN <<s>>
        ELSE LET a == CHOOSE i \in hits : \A j \in hits : i <= j
             IN  <<SubSeq(s, 1, a - 1)>> \o split_on(SubSeq(s, a + 1, Len(s)), c)

IsDigits(s) == s # << >> /\ \A i \in 1..Len(s) : \E k \in 1..Len(Digits) : Digits[k] = s[i]

DigitValue(c) == (CHOOSE k \in 1..Len(Digits) : Digits[k] = c) - 1

RECURSIVE DigitsToNat(_)
DigitsToNat(s) ==
    IF s = << >> THEN 0
    ELSE DigitsToNat(SubSeq(s, 1, Len(s) - 1)) * Len(Digits) + DigitValue(s[Len(s)])

RECURSIVE Pow10(_)
Pow10(k) == IF k = 0 THEN 1 ELSE Len(Digits) * Pow10(k - 1)

NotANumber == [ok |-> FALSE, v |-> Num(0)]

float_parts(negative, whole, frac) ==
    IF /\ (whole = << >> \/ IsDigits(whole))
       /\ (frac = << >> \/ IsDigits(frac))
       /\ (whole # << >> \/ frac # << >>)
    THEN [ok |-> TRUE,
          v |-> [n |-> (IF negative THEN -1 ELSE 1)
                       * (DigitsToNat(whole) * Pow10(Len(frac)) + DigitsToNat(frac)),
                 d |-> Pow10(Len(frac))]]
    ELSE NotANumber

float_body(negative, parts) ==
    IF Len(parts) = 1 THEN float_parts(negative, parts[1], << >>)
    ELSE IF Len(parts) = 2 THEN float_parts(negative, parts[1], parts[2])
    ELSE NotANumber

float_stripped(t) ==
    IF t # << >> /\ t[1] \in {"+", "-"}
    THEN float_body(t[1] = "-", split_on(Tail(t), "."))
    ELSE float_body(FALSE, split_on(t, "."))

\* float(s) for the decimal numerals [+-]digits[.digits]: [ok, v]; ok = FALSE is the
\* ValueError.  Exponents, inf, nan and digit separators are not among the texts drawn.
float(s) == float_stripped(strip(s))

NotALiteral == [ok |-> FALSE, l |-> << >>]

literal_numbers(fs) ==
    IF \A i \in 1..Len(fs) : fs[i].ok
    THEN [ok |-> TRUE, l |-> [i \in 1..Len(fs) |-> fs[i].v]]
    ELSE NotALiteral

literal_items(items) == literal_numbers([i \in 1..Len(items) |-> float(items[i])])

literal_stripped(t) ==
    IF /\ Len(t) >= 2
       /\ \/ t[1] = "[" /\ t[Len(t)] = "]"
          \/ t[1] = "(" /\ t[Len(t)] = ")"
    THEN literal_items(split_on(SubSeq(t, 2, Len(t) - 1), ","))
    ELSE NotALiteral

\* safe_literal_eval (ast.literal_eval) on a list or tuple display of numbers:
\* [ok, l]; ok = FALSE is the SyntaxError / ValueError it raises.  Of Python's literals
\* only these displays are modelled: every other text drawn is one it rejects.
safe_literal_eval(s) == literal_stripped(strip(s))

---------------------------------------------------------------------------
(* Action dispatcher: execute_pyautogui_action.                            *)

PIXELS_PER_SCROLL_CLICK == 15
SettleMs == 300         \* time.sleep(0.3) between commands
CopySettleMs == 200     \* time.sleep(0.2) after the clipboard copy
PasteSettleMs == 500    \* time.sleep(0.5) after the paste shortcut
WaitMs == 5000          \* time.sleep(5) of a wait command
KeyIntervalMs == 100    \* interval=0.1 of pyautogui.hotkey
DragDurationMs == 1000  \* duration=1.0 of pyautogui.dragTo
TypeStepLimit == 50     \* content[:50] in the step of a type command

\* One call on the host, or one append to the step log.
Op(fn, nums, strs) == [fn |-> fn, nums |-> nums, strs |-> strs]

Sleep(ms) == Op("time.sleep", <<ms>>, << >>)
LogStep(step) == Op("result_info.append", << >>, <<step>>)

InjectionFns == {"pyperclip.copy", "pyautogui.hotkey", "pyautogui.press",
                 "pyautogui.click", "pyautogui.doubleClick", "pyautogui.moveTo",
                 "pyautogui.dragTo", "pyautogui.scroll"}

\* What the body of the loop does for one command: the calls and appends in
\* order, whether it raised, whether it returned from the function.
Body(events, raised, stop) == [ops |-> events, raised |-> raised, stop |-> stop]

Ignored == Body(<< >>, FALSE, FALSE)
Raised == Body(<< >>, TRUE, FALSE)

\* the loop over action_inputs.items(): a str holding "<point>" goes through
\* safe_literal_eval
normalize_raises(action_inputs) ==
    \E k \in InputKeys :
        /\ action_inputs[k].t = "str"
        /\ contains(action_inputs[k].s, <<"<", "p", "o", "i", "n", "t", ">">>)
        /\ ~safe_literal_eval(action_inputs[k].s).ok

normalized_inputs(action_inputs) ==
    [k \in InputKeys |->
        IF action_inputs[k].t = "str" /\ contains(action_inputs[k].s, <<"<", "p", "o", "i", "n", "t", ">">>)
        THEN List(safe_literal_eval(action_inputs[k].s).l)
        ELSE action_inputs[k]]

box_checked(e) == [ok |-> e.ok /\ Len(e.l) >= 2, l |-> e.l]

\* a truthy box argument on its way to _box_to_screen_xy: a str is evaluated
\* first; [ok, l], ok = FALSE when safe_literal_eval raises or the value has
\* fewer than two elements (IndexError)
box_value(v) ==
    IF v.t = "str" THEN box_checked(safe_literal_eval(v.s))
    ELSE [ok |-> Len(v.l) >= 2, l |-> v.l]

\* s[:n]
prefix(s, n) == SubSeq(s, 1, IF Len(s) < n THEN Len(s) ELSE n)

xy_text(p) == IntToStr(p[1]) \o <<",">> \o IntToStr(p[2])

type_content(content, host) ==
    IF content = << >> THEN Ignored
    ELSE Body(<<Op("pyperclip.copy", << >>, <<content>>),
                Sleep(CopySettleMs),
                Op("pyautogui.hotkey", <<KeyIntervalMs>>,
                   <<IF host.sysname = "Darwin" THEN <<"c", "o", "m", "m", "a", "n", "d">> ELSE <<"c", "t", "r", "l">>, <<"v">>>>),
                Sleep(PasteSettleMs)>>
              \o (IF endswith(content, <<"\n">>) \/ endswith(content, <<"\\", "n">>)
                  THEN <<Op("pyautogui.press", << >>, <<<<"e", "n", "t", "e", "r">>>>)>>
                  ELSE << >>)
              \o <<LogStep(<<"t", "y", "p", "e", ":">> \o prefix(content, TypeStepLimit))>>,
              FALSE, FALSE)

type_branch(inputs, host) ==
    type_content(IF inputs.content.t = "str" THEN inputs.content.s ELSE << >>, host)

drag_between(s, e) ==
    Body(<<Op("pyautogui.moveTo", <<s[1], s[2]>>, << >>),
           Op("pyautogui.dragTo", <<e[1], e[2], DragDurationMs>>, << >>),
           LogStep(<<"d", "r", "a", "g", ":">> \o xy_text(s) \o <<"-", ">">> \o xy_text(e))>>,
         FALSE, FALSE)

drag_boxes(sb, eb, a) ==
    IF ~(sb.ok /\ eb.ok) THEN Raised
    ELSE drag_between(
            _box_to_screen_xy(sb.l, a.image_width, a.image_height, a.scale_factor),
            _box_to_screen_xy(eb.l, a.image_width, a.image_height, a.scale_factor))

drag_branch(inputs, a) ==
    IF ~(Truthy(inputs.start_box) /\ Truthy(inputs.end_box)) THEN Ignored
    ELSE drag_boxes(box_value(inputs.start_box), box_value(inputs.end_box), a)

\* max(1, int(screen_height * 0.25) // PIXELS_PER_SCROLL_CLICK)
scroll_amount(screen_height) ==
    IF (screen_height \div 4) \div PIXELS_PER_SCROLL_CLICK > 1
    THEN (screen_height \div 4) \div PIXELS_PER_SCROLL_CLICK
    ELSE 1

\* at: the x, y of the scroll, empty when the command carries no point
scroll_at(direction, at, amount) ==
    IF contains(direction, <<"u", "p">>)
    THEN Body(<<Op("pyautogui.scroll", <<amount>> \o at, << >>), LogStep(<<"s", "c", "r", "o", "l", "l", ":", "u", "p">>)>>,
              FALSE, FALSE)
    ELSE IF contains(direction, <<"d", "o", "w", "n">>)
    THEN Body(<<Op("pyautogui.scroll", <<-amount>> \o at, << >>), LogStep(<<"s", "c", "r", "o", "l", "l", ":", "d", "o", "w", "n">>)>>,
              FALSE, FALSE)
    ELSE Ignored

scroll_box(direction, sb, a, host) ==
    IF ~sb.ok THEN Raised
    ELSE scroll_at(direction,
                   _box_to_screen_xy(sb.l, a.image_width, a.image_height, a.scale_factor),
                   scroll_amount(host.screen_height))

scroll_direction(direction, inputs, a, host) ==
    IF Truthy(inputs.start_box)
    THEN scroll_box(direction, box_value(inputs.start_box), a, host)
    ELSE scroll_at(direction, << >>, scroll_amount(host.screen_height))

scroll_branch(inputs, a, host) ==
    scroll_direction(IF inputs.direction.t = "str" THEN lower(inputs.direction.s) ELSE << >>,
                     inputs, a, host)

pointer_at(action_type, p) ==
    IF action_type \in {<<"l", "e", "f", "t", "_", "s", "i", "n", "g", "l", "e">>, <<"c", "l", "i", "c", "k">>}
    THEN Body(<<Op("pyautogui.click", <<p[1], p[2]>>, << >>),
                LogStep(<<"c", "l", "i", "c", "k", ":">> \o xy_text(p))>>, FALSE, FALSE)
    ELSE IF action_type = <<"l", "e", "f", "t", "_", "d", "o", "u", "b", "l", "e">>
    THEN Body(<<Op("pyautogui.doubleClick", <<p[1], p[2]>>, << >>),
                LogStep(<<"d", "o", "u", "b", "l", "e", "_", "c", "l", "i", "c", "k", ":">> \o xy_text(p))>>, FALSE, FALSE)
    ELSE IF action_type = <<"r", "i", "g", "h", "t", "_", "s", "i", "n", "g", "l", "e">>
    THEN Body(<<Op("pyautogui.click", <<p[1], p[2]>>, <<<<"r", "i", "g", "h", "t">>>>),
                LogStep(<<"r", "i", "g", "h", "t", "_", "c", "l", "i", "c", "k", ":">> \o xy_text(p))>>, FALSE, FALSE)
    ELSE IF action_type = <<"h", "o", "v", "e", "r">>
    THEN Body(<<Op("pyautogui.moveTo", <<p[1], p[2]>>, << >>),
                LogStep(<<"h", "o", "v", "e", "r", ":">> \o xy_text(p))>>, FALSE, FALSE)
    ELSE Ignored

pointer_box(action_type, sb, a) ==
    IF ~sb.ok THEN Raised
    ELSE pointer_at(action_type,
                    _box_to_screen_xy(sb.l, a.image_width, a.image_height, a.scale_factor))

pointer_branch(action_type, inputs, a) ==
    IF ~Truthy(inputs.start_box) THEN Ignored
    ELSE pointer_box(action_type, box_value(inputs.start_box), a)

key_map ==
    <<  <<<<"c", "t", "r", "l">>, <<"c", "t", "r", "l">>>>, <<<<"c", "o", "n", "t", "r", "o", "l">>, <<"c", "t", "r", "l">>>>, <<<<"c", "m", "d">>, <<"c", "o", "m", "m", "a", "n", "d">>>>,
        <<<<"c", "o", "m", "m", "a", "n", "d">>, <<"c", "o", "m", "m", "a", "n", "d">>>>, <<<<"a", "l", "t">>, <<"a", "l", "t">>>>, <<<<"o", "p", "t", "i", "o", "n">>, <<"a", "l", "t">>>>,
        <<<<"s", "h", "i", "f", "t">>, <<"s", "h", "i", "f", "t">>>>, <<<<"e", "n", "t", "e", "r">>, <<"e", "n", "t", "e", "r">>>>, <<<<"r", "e", "t", "u", "r", "n">>, <<"e", "n", "t", "e", "r">>>>,
        <<<<"t", "a", "b">>, <<"t", "a", "b">>>>, <<<<"e", "s", "c">>, <<"e", "s", "c", "a", "p", "e">>>>, <<<<"e", "s", "c", "a", "p", "e">>, <<"e", "s", "c", "a", "p", "e">>>>,
        <<<<"s", "p", "a", "c", "e">>, <<"s", "p", "a", "c", "e">>>>, <<<<"b", "a", "c", "k", "s", "p", "a", "c", "e">>, <<"b", "a", "c", "k", "s", "p", "a", "c", "e">>>>, <<<<"d", "e", "l", "e", "t", "e">>, <<"d", "e", "l", "e", "t", "e">>>>  >>

\* key_map.get(item, item)
map_key(item) ==
    IF \E i \in 1..Len(key_map) : key_map[i][1] = item
    THEN key_map[CHOOSE i \in 1..Len(key_map) : key_map[i][1] = item][2]
    ELSE item

hotkey_mapped(mapped) ==
    Body(<<Op("pyautogui.hotkey", <<KeyIntervalMs>>, mapped),
           LogStep(<<"h", "o", "t", "k", "e", "y", ":">> \o join(<<"+">>, mapped))>>, FALSE, FALSE)

hotkey_keys(keys) ==
    IF keys = << >> THEN Ignored
    ELSE hotkey_mapped([i \in 1..Len(keys) |-> map_key(keys[i])])

\* str(key_combo).lower().strip().split()
hotkey_combo(key_combo) ==
    hotkey_keys(split(strip(lower(IF key_combo.t = "str" THEN key_combo.s ELSE << >>))))

hotkey_branch(inputs) ==
    hotkey_combo(IF Truthy(inputs.content) THEN inputs.content ELSE inputs.key)

finished_branch == Body(<<LogStep(<<"f", "i", "n", "i", "s", "h", "e", "d">>)>>, FALSE, TRUE)

\* The wait that logs no step.
wait_unlogged == Body(<<Sleep(WaitMs)>>, FALSE, FALSE)

wait_branch == Body(<<Sleep(WaitMs), LogStep(<<"w", "a", "i", "t", ":", "5", "s">>)>>, FALSE, FALSE)

\* the elif chain on action_type
kind_branch(action_type, inputs, a, host) ==
    IF action_type = <<"t", "y", "p", "e">> THEN type_branch(inputs, host)
    ELSE IF action_type \in {<<"d", "r", "a", "g">>, <<"s", "e", "l", "e", "c", "t">>} THEN drag_branch(inputs, a)
    ELSE IF action_type = <<"s", "c", "r", "o", "l", "l">> THEN scroll_branch(inputs, a, host)
    ELSE IF action_type \in {<<"c", "l", "i", "c", "k">>, <<"l", "e", "f", "t", "_", "s", "i", "n", "g", "l", "e">>, <<"l", "e", "f", "t", "_", "d", "o", "u", "b", "l", "e">>, <<"r", "i", "g", "h", "t", "_", "s", "i", "n", "g", "l", "e">>, <<"h", "o", "v", "e", "r">>}
    THEN pointer_branch(action_type, inputs, a)
    ELSE IF action_type = <<"h", "o", "t", "k", "e", "y">> THEN hotkey_branch(inputs)
    ELSE IF action_type = <<"f", "i", "n", "i", "s", "h", "e", "d">> THEN finished_branch
    ELSE IF action_type = <<"w", "a", "i", "t">> THEN wait_branch
    ELSE Ignored

\* a settle delay before every command, the first included
settle_always(idx) == TRUE

\* if index > 0: time.sleep(0.3)
settle_before(idx) == idx > 0

\* the commands taken from the end of the list
enumerate_reversed(cmds, idx) == Len(cmds) - idx

\* enumerate(responses): the position (from 1) of the command of iteration idx (from 0)
enumerate(cmds, idx) == idx + 1

after_settle(settle, b) == Body(settle \o b.ops, b.raised, b.stop)

settle_delay(idx) == IF settle_before(idx) THEN <<Sleep(SettleMs)>> ELSE << >>

\* one iteration of the loop, for the command at position idx (from 0)
loop_body(cmd, idx, a, host) ==
    IF normalize_raises(cmd.action_inputs)
    THEN Body(settle_delay(idx), TRUE, FALSE)
    ELSE after_settle(settle_delay(idx),
                      kind_branch(cmd.action_type, normalized_inputs(cmd.action_inputs), a, host))

\* the steps appended by a run of events
RECURSIVE steps_of(_)
steps_of(events) ==
    IF events = << >> THEN << >>
    ELSE (IF Head(events).fn = "result_info.append" THEN <<Head(events).strs[1]>> ELSE << >>)
         \o steps_of(Tail(events))

\* an event of the trace: the op and the position of the command it was made for
Tagged(events, position) ==
    [i \in 1..Len(events) |->
        [cmd |-> position, fn |-> events[i].fn, nums |-> events[i].nums, strs |-> events[i].strs]]

---------------------------------------------------------------------------
(* The commands and hosts the dispatcher is run on.                        *)

Point(x, y) == List(<<Num(x), Num(y)>>)

WithInputs(pairs) ==
    [k \in InputKeys |->
        IF \E i \in 1..Len(pairs) : pairs[i][1] = k
        THEN pairs[CHOOSE i \in 1..Len(pairs) : pairs[i][1] = k][2]
        ELSE NoValue]

PointText == <<"<", "p", "o", "i", "n", "t", ">", "1", " ", "2", "<", "/", "p", "o", "i", "n", "t", ">">>

SampleCommands ==
    { Command(<<"c", "l", "i", "c", "k">>, WithInputs(<< <<"start_box", Point(500, 500)>> >>)),
      Command(<<"c", "l", "i", "c", "k">>, NoInputs),
      Command(<<"l", "e", "f", "t", "_", "s", "i", "n", "g", "l", "e">>, WithInputs(<< <<"start_box", Point(1200, 50)>> >>)),
      Command(<<"l", "e", "f", "t", "_", "d", "o", "u", "b", "l", "e">>, WithInputs(<< <<"start_box", Str(<<"[", "1", "0", "0", ",", " ", "1", "0", "0", ",", " ", "3", "0", "0", ",", " ", "3", "0", "0", "]">>)>> >>)),
      Command(<<"r", "i", "g", "h", "t", "_", "s", "i", "n", "g", "l", "e">>, WithInputs(<< <<"start_box", Point(-1000, 1000)>> >>)),
      Command(<<"h", "o", "v", "e", "r">>, WithInputs(<< <<"start_box", Str(<<"n", "o", "w", "h", "e", "r", "e">>)>> >>)),
      Command(<<"d", "r", "a", "g">>, WithInputs(<< <<"start_box", Point(100, 100)>>,
                                    <<"end_box", Point(200, 200)>> >>)),
      Command(<<"s", "e", "l", "e", "c", "t">>, WithInputs(<< <<"start_box", Point(100, 100)>> >>)),
      Command(<<"s", "c", "r", "o", "l", "l">>, WithInputs(<< <<"direction", Str(<<"D", "o", "w", "n">>)>>,
                                      <<"start_box", Point(500, 500)>> >>)),
      Command(<<"s", "c", "r", "o", "l", "l">>, WithInputs(<< <<"direction", Str(<<"u", "p">>)>> >>)),
      Command(<<"s", "c", "r", "o", "l", "l">>, WithInputs(<< <<"direction", Str(<<"l", "e", "f", "t">>)>> >>)),
      Command(<<"t", "y", "p", "e">>, WithInputs(<< <<"content", Str(<<"h", "i">>)>> >>)),
      Command(<<"t", "y", "p", "e">>, WithInputs(<< <<"content", Str(<<>>)>> >>)),
      Command(<<"t", "y", "p", "e">>, WithInputs(<< <<"content", Str(<<"o", "k", "\n">>)>> >>)),
      Command(<<"h", "o", "t", "k", "e", "y">>, WithInputs(<< <<"key", Str(<<"C", "t", "r", "l", " ", "c">>)>> >>)),
      Command(<<"h", "o", "t", "k", "e", "y">>, WithInputs(<< <<"key", Str(<<" ">>)>> >>)),
      Command(<<"w", "a", "i", "t">>, NoInputs),
      Command(<<"f", "i", "n", "i", "s", "h", "e", "d">>, NoInputs),
      Command(<<"f", "i", "n", "i", "s", "h", "e", "d">>, WithInputs(<< <<"content", Str(PointText)>> >>)),
      Command(<<"f", "o", "o", "b", "a", "r">>, NoInputs),
      Command(<<"f", "o", "o", "b", "a", "r">>, WithInputs(<< <<"content", Str(PointText)>> >>)) }

RECURSIVE SeqsUpTo(_, _)
SeqsUpTo(S, n) ==
    IF n = 0 THEN {<< >>}
    ELSE LET shorter == SeqsUpTo(S, n - 1)
         IN  shorter \cup {Append(s, x) : s \in {t \in shorter : Len(t) = n - 1}, x \in S}

\* the commands the longest lists are drawn from
CoreCommands ==
    { c \in SampleCommands :
        \/ c.action_type \in {<<"d", "r", "a", "g">>, <<"w", "a", "i", "t">>}
        \/ c.action_type = <<"c", "l", "i", "c", "k">> /\ Truthy(c.action_inputs.start_box)
        \/ c.action_type = <<"t", "y", "p", "e">> /\ c.action_inputs.content.s \in {<<"h", "i">>, <<>>}
        \/ c.action_type = <<"h", "o", "t", "k", "e", "y">> /\ c.action_inputs.key.s = <<"C", "t", "r", "l", " ", "c">>
        \/ c.action_type \in {<<"f", "i", "n", "i", "s", "h", "e", "d">>, <<"f", "o", "o", "b", "a", "r">>} /\ c.action_inputs = NoInputs }

\* the four-command batches click, type, finished, click
ExampleBatches ==
    { <<a, b, c, d>> :
        a \in {x \in SampleCommands : x.action_type = <<"c", "l", "i", "c", "k">>},
        b \in {x \in SampleCommands : x.action_type = <<"t", "y", "p", "e">>},
        c \in {x \in SampleCommands : x.action_type = <<"f", "i", "n", "i", "s", "h", "e", "d">>},
        d \in {x \in SampleCommands : x.action_type = <<"c", "l", "i", "c", "k">>} }

Hosts == { [sysname |-> "Darwin", screen_height |-> 1080],
           [sysname |-> "Linux", screen_height |-> 40] }

NoHost == [sysname |-> "", screen_height |-> 0]

LongText == <<"a", "b", "c", "d", "e", "f", "g", "h", "i", "j", "k", "l", "m", "n", "o", "p", "q", "r", "s", "t", "u", "v", "w", "x", "y", "z", "a", "b", "c", "d", "e", "f", "g", "h", "i", "j", "k", "l", "m", "n", "o", "p", "q", "r", "s", "t", "u", "v", "w", "x", "y", "\n">>

\* more commands of the kinds type and scroll
TypeAndScrollCommands ==
    { Command(<<"t", "y", "p", "e">>, WithInputs(<< <<"content", Str(PointText)>> >>)),
      Command(<<"t", "y", "p", "e">>, WithInputs(<< <<"content", Str(LongText)>> >>)),
      Command(<<"t", "y", "p", "e">>, WithInputs(<< <<"content", Str(<<"g", "o", "\\", "n">>)>> >>)),
      Command(<<"t", "y", "p", "e">>, WithInputs(<< <<"content", Str(<<"\\">>)>> >>)),
      Command(<<"s", "c", "r", "o", "l", "l">>, WithInputs(<< <<"direction", Str(<<"u", "p">>)>>,
                                      <<"start_box", Str(PointText)>> >>)),
      Command(<<"s", "c", "r", "o", "l", "l">>, WithInputs(<< <<"direction", Str(<<"p", "a", "g", "e", " ", "U", "P">>)>>,
                                      <<"start_box", Str(<<"[", "1", "0", "0", ",", " ", "1", "0", "0", ",", " ", "3", "0", "0", ",", " ", "3", "0", "0", "]">>)>> >>)),
      Command(<<"s", "c", "r", "o", "l", "l">>, WithInputs(<< <<"direction", Str(<<>>)>> >>)),
      Command(<<"s", "c", "r", "o", "l", "l">>, WithInputs(<< <<"direction", Str(<<"r", "i", "g", "h", "t">>)>>,
                                      <<"start_box", Point(500, 500)>> >>)),
      Command(<<"s", "c", "r", "o", "l", "l">>, NoInputs) }

\* the commands put before and after them
Neighbours ==
    { Command(<<"c", "l", "i", "c", "k">>, WithInputs(<< <<"start_box", Point(500, 500)>> >>)),
      Command(<<"w", "a", "i", "t">>, NoInputs) }

TypeAndScrollBatches ==
    { <<c>> : c \in TypeAndScrollCommands }
    \cup { <<n, c>> : n \in Neighbours, c \in TypeAndScrollCommands }
    \cup { <<c, n>> : n \in Neighbours, c \in TypeAndScrollCommands }

\* more commands of the kind hotkey
HotkeyCommands ==
    { Command(<<"h", "o", "t", "k", "e", "y">>, WithInputs(<< <<"key", Str(<<"C", "O", "N", "T", "R", "O", "L", " ", "R", "e", "t", "u", "r", "n">>)>> >>)),
      Command(<<"h", "o", "t", "k", "e", "y">>, WithInputs(<< <<"key", Str(<<" ", "c", "m", "d", " ", " ", "s", "h", "i", "f", "t", "\t", "e", "s", "c", "\n">>)>> >>)),
      Command(<<"h", "o", "t", "k", "e", "y">>, WithInputs(<< <<"key", Str(<<"c", "t", "r", "l", " ", "<", "p", "o", "i", "n", "t", ">", "1", " ", "2", "<", "/", "p", "o", "i", "n", "t", ">">>)>> >>)),
      Command(<<"h", "o", "t", "k", "e", "y">>, WithInputs(<< <<"key", Str(<<"c", "t", "r", "l", " ", "c">>)>>,
                                      <<"content", Str(<<"a", "l", "t", " ", "t", "a", "b">>)>> >>)),
      Command(<<"h", "o", "t", "k", "e", "y">>, WithInputs(<< <<"content", Str(<<"F", "5">>)>> >>)),
      Command(<<"h", "o", "t", "k", "e", "y">>, NoInputs) }

HotkeyBatches ==
    { <<c>> : c \in HotkeyCommands }
    \cup { <<n, c>> : n \in Neighbours, c \in HotkeyCommands }
    \cup { <<c, n>> : n \in Neighbours, c \in HotkeyCommands }

\* the responses argument: one command dict, or a list of them
DictArg(c) == [dict |-> TRUE, cmd |-> c, list |-> << >>]
ListArg(b) == [dict |-> FALSE, cmd |-> Command(<< >>, NoInputs), list |-> b]

DispatcherArgs ==
    { [responses |-> ListArg(b), image_height |-> 1080,
       image_width |-> 1920, scale_factor |-> COORDINATE_SCALE] :
        b \in SeqsUpTo(CoreCommands, MaxBatch)
              \cup SeqsUpTo(SampleCommands, MaxPair) \cup ExampleBatches
              \cup TypeAndScrollBatches \cup HotkeyBatches }
    \cup
    { [responses |-> DictArg(c), image_height |-> 1080,
       image_width |-> 1920, scale_factor |-> COORDINATE_SCALE] :
        c \in SampleCommands }

---------------------------------------------------------------------------
(* execute_pyautogui_action as a process.                                  *)

Idle ==
    /\ responses = << >>
    /\ index = 0
    /\ result_info = << >>
    /\ ops = << >>
    /\ _mss_instance = None

NoText ==
    /\ response = << >>
    /\ action_strings = << >>
    /\ parsed_all = << >>

Init ==
    /\ entry = "execute_pyautogui_action"
    /\ pc = "call"
    /\ arg \in DispatcherArgs
    /\ env \in Hosts
    /\ ret = << >>
    /\ Idle
    /\ NoText

\* if isinstance(responses, dict): responses = [responses]; result_info = []
Enter ==
    /\ pc = "call"
    /\ responses' = IF arg.responses.dict THEN <<arg.responses.cmd>> ELSE arg.responses.list
    /\ index' = 0
    /\ result_info' = << >>
    /\ pc' = "loop"
    /\ UNCHANGED <<arg, ret, env, ops, response, action_strings, parsed_all, entry, _mss_instance>>

\* the effect of one iteration: b is what the body of the loop did
Iteration(position, b) ==
    /\ ops' = ops \o Tagged(b.ops, position)
    /\ result_info' = result_info \o steps_of(b.ops)
    /\ index' = index + 1
    /\ pc' = IF b.raised THEN "raised" ELSE IF b.stop THEN "returned" ELSE "loop"
    /\ ret' = IF b.stop /\ ~b.raised THEN result_info \o steps_of(b.ops) ELSE ret

IterationAt(position) ==
    Iteration(position, loop_body(responses[position], index, arg, env))

\* for index, response in enumerate(responses): one iteration
Iterate ==
    /\ pc = "loop"
    /\ index < Len(responses)
    /\ IterationAt(enumerate(responses, index))
    /\ UNCHANGED <<arg, env, responses, response, action_strings, parsed_all, entry, _mss_instance>>

\* return result_info, the list exhausted
Return ==
    /\ pc = "loop"
    /\ index = Len(responses)
    /\ pc' = "returned"
    /\ ret' = result_info
    /\ UNCHANGED <<arg, env, responses, index, result_info, ops,
                   response, action_strings, parsed_all, entry, _mss_instance>>

Next == Enter \/ Iterate \/ Return

Spec == Init /\ [][Next]_vars

---------------------------------------------------------------------------
(* The normalizer run on its own.                                          *)

Coords == {[n |-> k, d |-> dd] : k \in (-MaxNum)..MaxNum, dd \in {1, 2}}
IntCoords == {Num(k) : k \in (-MaxNum)..MaxNum}

SmallImages == {<<3, 5>>, <<8, 3>>}

NormalizerArgs ==
    { [value |-> <<x, y>>, image_width |-> im[1], image_height |-> im[2],
       scale_factor |-> SmallScale] : x \in Coords, y \in Coords, im \in SmallImages }
    \cup
    { [value |-> <<a, b, c, d>>, image_width |-> im[1], image_height |-> im[2],
       scale_factor |-> SmallScale] :
        a \in IntCoords, b \in IntCoords, c \in IntCoords, d \in IntCoords,
        im \in SmallImages }
    \cup
    { [value |-> v, image_width |-> 1920, image_height |-> 1080,
       scale_factor |-> COORDINATE_SCALE] :
        v \in { <<Num(500), Num(500)>>, <<Num(1200), Num(50)>>,
                <<Num(1000), Num(-1000)>>, <<Num(1001), Num(5)>>,
                <<Num(100), Num(100), Num(300), Num(300)>>,
                <<Num(0), Num(0), Num(1500), Num(10)>> } }

InitNormalizer ==
    /\ entry = "normalizer"
    /\ pc = "call"
    /\ arg \in NormalizerArgs
    /\ env = NoHost
    /\ ret = << >>
    /\ Idle
    /\ NoText

PointToScreen ==
    /\ pc = "call"
    /\ entry = "normalizer"
    /\ Len(arg.value) = 2
    /\ ret' = _point_to_screen_xy(arg.value, arg.image_width, arg.image_height, arg.scale_factor)
    /\ pc' = "point"
    /\ UNCHANGED <<arg, env, responses, index, result_info, ops,
                   response, action_strings, parsed_all, entry, _mss_instance>>

BoxToScreen ==
    /\ pc = "call"
    /\ entry = "normalizer"
    /\ ret' = _box_to_screen_xy(arg.value, arg.image_width, arg.image_height, arg.scale_factor)
    /\ pc' = "box"
    /\ UNCHANGED <<arg, env, responses, index, result_info, ops,
                   response, action_strings, parsed_all, entry, _mss_instance>>

NextNormalizer == PointToScreen \/ BoxToScreen

SpecNormalizer == InitNormalizer /\ [][NextNormalizer]_vars


---------------------------------------------------------------------------
(* Action-string extractor: _split_multi_actions.                          *)

OpenMarker == <<"<", "a", "c", "t", "i", "o", "n", ">">>
CloseMarker == <<"<", "/", "a", "c", "t", "i", "o", "n", ">">>
Label == <<"A", "c", "t", "i", "o", "n", ":", " ">>
LabelLength == 7    \* action_str[7:], the length of "action:"

\* first position >= p of s that holds no whitespace, Len(s) + 1 when none does
skip_space(s, p) == LeastOr(Len(s) + 1, {q \in p..Len(s) : s[q] \notin WhiteSpace})

\* xml_pattern.findall(response) from position pos on: the bodies of the
\* leftmost non-overlapping matches of <action>(.*?)</action>, case ignored;
\* low is response.lower()
RECURSIVE xml_findall(_, _, _)

xml_body(s, low, o, c) ==
    IF c = 0 THEN << >>
    ELSE <<SubSeq(s, o + Len(OpenMarker), c - 1)>>
         \o xml_findall(s, low, c + Len(CloseMarker))

xml_open(s, low, o) ==
    IF o = 0 THEN << >>
    ELSE xml_body(s, low, o, find(low, CloseMarker, o + Len(OpenMarker)))

xml_findall(s, low, pos) == xml_open(s, low, find(low, OpenMarker, pos))

\* if action_str: actions.append(f"Action: {action_str}")
xml_action(action_str) == IF action_str # << >> THEN <<Label \o action_str>> ELSE << >>

RECURSIVE xml_actions(_)
xml_actions(xml_matches) ==
    IF xml_matches = << >> THEN << >>
    ELSE xml_action(strip(Head(xml_matches))) \o xml_actions(Tail(xml_matches))

action_funcs ==
    <<<<"c", "l", "i", "c", "k">>, <<"l", "e", "f", "t", "_", "d", "o", "u", "b", "l", "e">>, <<"r", "i", "g", "h", "t", "_", "s", "i", "n", "g", "l", "e">>, <<"d", "r", "a", "g">>, <<"h", "o", "t", "k", "e", "y">>, <<"t", "y", "p", "e">>,
      <<"s", "c", "r", "o", "l", "l">>, <<"w", "a", "i", "t">>, <<"f", "i", "n", "i", "s", "h", "e", "d">>, <<"l", "e", "f", "t", "_", "s", "i", "n", "g", "l", "e">>, <<"h", "o", "v", "e", "r">>, <<"s", "e", "l", "e", "c", "t">>>>

\* the position after the name of action_funcs that stands at q, 0 when none does
name_end(low, q) ==
    IF \E i \in 1..Len(action_funcs) : startswith_at(low, q, action_funcs[i])
    THEN q + Len(action_funcs[CHOOSE i \in 1..Len(action_funcs) :
                                  startswith_at(low, q, action_funcs[i])])
    ELSE 0

\* \([^)]*\) at r: the position of the closing parenthesis, 0 when it does not match
call_close(low, r) ==
    IF r <= Len(low) /\ low[r] = "(" THEN find(low, <<")">>, r + 1) ELSE 0

call_after_name(low, e) == IF e = 0 THEN 0 ELSE call_close(low, skip_space(low, e))

\* the pattern (?:Action:\s*)?(name)\s*\([^)]*\) at p, case ignored: the position
\* of the last character matched, 0 when it does not match at p
pattern_match_at(low, p) ==
    call_after_name(low,
        name_end(low, IF startswith_at(low, p, <<"a", "c", "t", "i", "o", "n", ":">>)
                      THEN skip_space(low, p + LabelLength)
                      ELSE p))

\* pattern.finditer(response) from position pos on: match.group(0) of each match
RECURSIVE pattern_finditer(_, _, _)

pattern_match(s, low, p, e) == <<SubSeq(s, p, e)>> \o pattern_finditer(s, low, e + 1)

pattern_from(s, low, p) ==
    IF p = 0 THEN << >> ELSE pattern_match(s, low, p, pattern_match_at(low, p))

pattern_finditer(s, low, pos) ==
    pattern_from(s, low, LeastOr(0, {p \in pos..Len(low) : pattern_match_at(low, p) # 0}))

\* if action_str.lower().startswith("action:"): action_str = action_str[7:].strip()
unlabelled(action_str) ==
    IF startswith(lower(action_str), <<"a", "c", "t", "i", "o", "n", ":">>)
    THEN strip(SubSeq(action_str, LabelLength + 1, Len(action_str)))
    ELSE action_str

fallback_actions(matches) == [i \in 1..Len(matches) |-> Label \o unlabelled(matches[i])]

\* return actions if actions else [f"Action: {response.strip()}"]
last_resort(text, actions) ==
    IF actions # << >> THEN actions ELSE <<Label \o strip(text)>>

split_fallback(text) ==
    last_resort(text, fallback_actions(pattern_finditer(text, lower(text), 1)))

\* The fallback scan run on a response that has delimited spans as well.
split_matches_and_scan(text, xml_matches) ==
    IF xml_matches # << >>
    THEN xml_actions(xml_matches)
         \o fallback_actions(pattern_finditer(text, lower(text), 1))
    ELSE split_fallback(text)

\* The last resort left out.
split_matches_or_nothing(text, xml_matches) ==
    IF xml_matches # << >> THEN xml_actions(xml_matches)
    ELSE fallback_actions(pattern_finditer(text, lower(text), 1))

\* if xml_matches: ... return actions
split_matches(text, xml_matches) ==
    IF xml_matches # << >> THEN xml_actions(xml_matches) ELSE split_fallback(text)

_split_multi_actions(text) ==
    split_matches(text, xml_findall(text, lower(text), 1))

---------------------------------------------------------------------------
(* Builtin parser: _parse_builtin_action.                                  *)

Chars(s) == {s[i] : i \in 1..Len(s)}

IdentStart == Chars(LowerCase) \cup Chars(UpperCase) \cup {"_"}
IdentChar == IdentStart \cup Chars(Digits)

\* length of the identifier [a-zA-Z_][a-zA-Z0-9_]* at the start of raw, 0 when
\* raw starts with none
ident_length(raw) ==
    IF raw # << >> /\ raw[1] \in IdentStart
    THEN LeastOr(Len(raw) + 1, {q \in 1..Len(raw) : raw[q] \notin IdentChar}) - 1
    ELSE 0

\* re.match(r"^([a-zA-Z_][a-zA-Z0-9_]*)\((.*)\)$", raw, re.DOTALL), n the
\* length of the identifier
call_parts(raw, n) ==
    IF /\ n > 0
       /\ Len(raw) >= n + 2
       /\ raw[n + 1] = "("
       /\ raw[Len(raw)] = ")"
    THEN [action_type |-> lower(SubSeq(raw, 1, n)),
          args |-> strip(SubSeq(raw, n + 2, Len(raw) - 1))]
    ELSE [action_type |-> lower(raw), args |-> << >>]

call_parts_of(raw) == call_parts(raw, ident_length(raw))

_extract_call_parts(action_str) == call_parts_of(unlabelled(strip(action_str)))

\* None
NoMatch == [ok |-> FALSE, v |-> << >>]

\* name\s*=\s*q([^q]*)q at p, q the quote character: [ok, v], v the group
quoted_close(args, b, c) ==
    IF c = 0 THEN NoMatch ELSE [ok |-> TRUE, v |-> SubSeq(args, b + 1, c - 1)]

quoted_open(args, quote, b) ==
    IF b <= Len(args) /\ args[b] = quote
    THEN quoted_close(args, b, find(args, <<quote>>, b + 1))
    ELSE NoMatch

quoted_equals(args, quote, a) ==
    IF a <= Len(args) /\ args[a] = "="
    THEN quoted_open(args, quote, skip_space(args, a + 1))
    ELSE NoMatch

quoted_at(args, name, quote, p) ==
    IF startswith_at(args, p, name)
    THEN quoted_equals(args, quote, skip_space(args, p + Len(name)))
    ELSE NoMatch

quoted_first(args, name, quote, p) ==
    IF p = 0 THEN NoMatch ELSE quoted_at(args, name, quote, p)

\* pattern.search(args): the leftmost match
quoted_search(args, name, quote) ==
    quoted_first(args, name, quote,
        LeastOr(0, {p \in 1..Len(args) : quoted_at(args, name, quote, p).ok}))

quoted_or(single, args, name) ==
    IF single.ok THEN single ELSE quoted_search(args, name, "\"")

_extract_quoted_arg(args, name) == quoted_or(quoted_search(args, name, "'"), args, name)

\* s.replace(pat, "")
RECURSIVE removed(_, _)

removed_at(s, pat, p) ==
    IF p = 0 THEN s
    ELSE SubSeq(s, 1, p - 1) \o removed(SubSeq(s, p + Len(pat), Len(s)), pat)

removed(s, pat) == removed_at(s, pat, find(s, pat, 1))

\* re.split(r"\s+", cleaned) of a stripped text
re_split(cleaned) == IF cleaned = << >> THEN << << >> >> ELSE split(cleaned)

\* None
NoPoint == [ok |-> FALSE, l |-> << >>]

point_floats(x, y) ==
    IF x.ok /\ y.ok THEN [ok |-> TRUE, l |-> <<x.v, y.v>>] ELSE NoPoint

point_parts(parts) ==
    IF Len(parts) < 2 THEN NoPoint ELSE point_floats(float(parts[1]), float(parts[2]))

point_value(value) ==
    IF ~value.ok \/ value.v = << >> THEN NoPoint
    ELSE point_parts(re_split(strip(removed(removed(value.v, <<"<", "p", "o", "i", "n", "t", ">">>), <<"<", "/", "p", "o", "i", "n", "t", ">">>))))

_extract_point_arg(args, name) == point_value(_extract_quoted_arg(args, name))

\* None
NoCommand == [ok |-> FALSE, cmd |-> Command(<< >>, NoInputs)]

Parsed(action_type, pairs) ==
    [ok |-> TRUE, cmd |-> Command(action_type, WithInputs(pairs))]

\* The pointer kinds with one more name let in.
PointerKindsAndTap ==
    {<<"c", "l", "i", "c", "k">>, <<"l", "e", "f", "t", "_", "s", "i", "n", "g", "l", "e">>, <<"l", "e", "f", "t", "_", "d", "o", "u", "b", "l", "e">>, <<"r", "i", "g", "h", "t", "_", "s", "i", "n", "g", "l", "e">>, <<"h", "o", "v", "e", "r">>, <<"t", "a", "p">>}

PointerKinds == {<<"c", "l", "i", "c", "k">>, <<"l", "e", "f", "t", "_", "s", "i", "n", "g", "l", "e">>, <<"l", "e", "f", "t", "_", "d", "o", "u", "b", "l", "e">>, <<"r", "i", "g", "h", "t", "_", "s", "i", "n", "g", "l", "e">>, <<"h", "o", "v", "e", "r">>}

parse_pointer_start(action_type, start_point) ==
    IF start_point.ok
    THEN Parsed(action_type, << <<"start_box", List(start_point.l)>> >>)
    ELSE NoCommand

\* point = _extract_point_arg(args, "point") or _extract_point_arg(args, "start_point")
parse_pointer(action_type, point, args) ==
    IF point.ok
    THEN Parsed(action_type, << <<"start_box", List(point.l)>> >>)
    ELSE parse_pointer_start(action_type, _extract_point_arg(args, <<"s", "t", "a", "r", "t", "_", "p", "o", "i", "n", "t">>))

parse_drag(action_type, start, end) ==
    IF ~start.ok \/ ~end.ok THEN NoCommand
    ELSE Parsed(action_type, << <<"start_box", List(start.l)>>,
                                <<"end_box", List(end.l)>> >>)

\* direction = _extract_quoted_arg(args, "direction") or "down"
parse_scroll(action_type, direction, point) ==
    Parsed(action_type,
           << <<"direction", Str(IF direction.ok /\ direction.v # << >>
                                 THEN direction.v ELSE <<"d", "o", "w", "n">>)>> >>
           \o (IF point.ok THEN << <<"start_box", List(point.l)>> >> ELSE << >>))

parse_type(action_type, content) ==
    IF ~content.ok THEN NoCommand
    ELSE Parsed(action_type, << <<"content", Str(content.v)>> >>)

\* key_combo = _extract_quoted_arg(args, "key") or _extract_quoted_arg(args, "content")
parse_hotkey_combo(action_type, key_combo) ==
    IF ~key_combo.ok THEN NoCommand
    ELSE Parsed(action_type, << <<"key", Str(key_combo.v)>> >>)

parse_hotkey(action_type, key, args) ==
    parse_hotkey_combo(action_type,
        IF key.ok /\ key.v # << >> THEN key ELSE _extract_quoted_arg(args, <<"c", "o", "n", "t", "e", "n", "t">>))

parse_finished(action_type, content) ==
    Parsed(action_type,
           IF content.ok /\ content.v # << >>
           THEN << <<"content", Str(content.v)>> >> ELSE << >>)

\* the chain of ifs on action_type
parse_call(action_type, args) ==
    IF action_type \in PointerKinds
    THEN parse_pointer(action_type, _extract_point_arg(args, <<"p", "o", "i", "n", "t">>), args)
    ELSE IF action_type \in {<<"d", "r", "a", "g">>, <<"s", "e", "l", "e", "c", "t">>}
    THEN parse_drag(action_type, _extract_point_arg(args, <<"s", "t", "a", "r", "t", "_", "p", "o", "i", "n", "t">>),
                    _extract_point_arg(args, <<"e", "n", "d", "_", "p", "o", "i", "n", "t">>))
    ELSE IF action_type = <<"s", "c", "r", "o", "l", "l">>
    THEN parse_scroll(action_type, _extract_quoted_arg(args, <<"d", "i", "r", "e", "c", "t", "i", "o", "n">>),
                      _extract_point_arg(args, <<"p", "o", "i", "n", "t">>))
    ELSE IF action_type = <<"t", "y", "p", "e">>
    THEN parse_type(action_type, _extract_quoted_arg(args, <<"c", "o", "n", "t", "e", "n", "t">>))
    ELSE IF action_type = <<"h", "o", "t", "k", "e", "y">>
    THEN parse_hotkey(action_type, _extract_quoted_arg(args, <<"k", "e", "y">>), args)
    ELSE IF action_type = <<"w", "a", "i", "t">>
    THEN Parsed(action_type, << >>)
    ELSE IF action_type = <<"f", "i", "n", "i", "s", "h", "e", "d">>
    THEN parse_finished(action_type, _extract_quoted_arg(args, <<"c", "o", "n", "t", "e", "n", "t">>))
    ELSE NoCommand

parse_parts(parts) == parse_call(parts.action_type, parts.args)

_parse_builtin_action(action_str) == parse_parts(_extract_call_parts(action_str))

---------------------------------------------------------------------------
(* parse_and_execute_action: the choice of the parser, the registered      *)
(* (custom) parser and the ui_tars parser.                                 *)

\* the function under way is parse_and_execute_action, called for itself or by
\* auto_screen_operation
Parsing == entry \in {"parse_and_execute_action", "auto_screen_operation"}

\* parser_name = (action_parser or "builtin").strip().lower(); None is the empty text
parser_name(action_parser) ==
    IF action_parser = << >> THEN <<"b", "u", "i", "l", "t", "i", "n">> ELSE lower(strip(action_parser))

\* the branch of the if / elif / else on parser_name
backend_pc(name) ==
    IF name = <<"c", "u", "s", "t", "o", "m">> THEN "custom"
    ELSE IF name = <<"u", "i", "_", "t", "a", "r", "s">> THEN "ui_tars"
    ELSE "parse"

\* what a parser outside the engine gives back for one call: a command (dict),
\* a list of items each of which is a command or not, something else (none,
\* other), or an exception of the class named
ParserResult(kind, cmd, items) == [kind |-> kind, cmd |-> cmd, items |-> items]

NoCmd == Command(<< >>, NoInputs)

ReturnsDict(c) == ParserResult("dict", c, << >>)
ReturnsList(items) == ParserResult("list", NoCmd, items)
ReturnsNone == ParserResult("none", NoCmd, << >>)
ReturnsOther == ParserResult("other", NoCmd, << >>)
RaisesError(class) == ParserResult(class, NoCmd, << >>)

DictItem(c) == [is_dict |-> TRUE, cmd |-> c]
OtherItem == [is_dict |-> FALSE, cmd |-> NoCmd]

\* the modules importlib can import on the host, with their attributes
InstalledModules == {<<"m", "y", "_", "p", "a", "r", "s", "e", "r", "s">>}
CallableAttributes == {<<"p", "a", "r", "s", "e">>}
OtherAttributes == {<<"T", "A", "B", "L", "E">>}

Resolved == [ok |-> TRUE, error |-> ""]
NotResolved(class) == [ok |-> FALSE, error |-> class]

\* The check that the attribute is callable left out.
load_attribute_unchecked(func_name) ==
    IF func_name \in CallableAttributes \cup OtherAttributes THEN Resolved
    ELSE NotResolved("AttributeError")

\* parser = getattr(module, func_name); if not callable(parser): raise ValueError
load_attribute(func_name) ==
    IF func_name \in CallableAttributes THEN Resolved
    ELSE IF func_name \in OtherAttributes THEN NotResolved("ValueError")
    ELSE NotResolved("AttributeError")

\* module = importlib.import_module(module_name); parser = getattr(module, func_name)
load_module(module_name, func_name) ==
    IF module_name \notin InstalledModules THEN NotResolved("ModuleNotFoundError")
    ELSE load_attribute(func_name)

\* module_name, func_name = callable_path.split(":", 1), colon the place of the first ":"
load_path(callable_path, colon) ==
    IF colon = 0 THEN NotResolved("ValueError")
    ELSE load_module(SubSeq(callable_path, 1, colon - 1),
                     SubSeq(callable_path, colon + 1, Len(callable_path)))

_load_custom_action_parser(callable_path) ==
    load_path(callable_path, find(callable_path, <<":">>, 1))

\* if not action_parser_callable: raise ValueError(...)
resolve_custom(action_parser_callable) ==
    IF action_parser_callable = << >> THEN NotResolved("ValueError")
    ELSE _load_custom_action_parser(action_parser_callable)

RECURSIVE dict_items(_)
dict_items(items) ==
    IF items = << >> THEN << >>
    ELSE (IF Head(items).is_dict THEN <<Head(items).cmd>> ELSE << >>)
         \o dict_items(Tail(items))

\* if isinstance(parsed, dict): [parsed]; elif isinstance(parsed, list): the dicts of it
parsed_commands(parsed) ==
    IF parsed.kind = "dict" THEN <<parsed.cmd>>
    ELSE IF parsed.kind = "list" THEN dict_items(parsed.items)
    ELSE << >>

\* The call with the height before the width.
parser_call_height_first(text, a) ==
    [cmd |-> 0, fn |-> "parser", nums |-> <<a.image_height, a.image_width, a.scale_factor>>,
     strs |-> <<text>>]

\* parser(response, img_width, img_height, scale_factor), as a call seen from outside
parser_call(text, a) ==
    [cmd |-> 0, fn |-> "parser", nums |-> <<a.image_width, a.image_height, a.scale_factor>>,
     strs |-> <<text>>]

Returned(kind) == kind \in {"dict", "list", "none", "other"}

\* the branch of the custom parser, from its resolution to parsed_all
CustomParsed(resolved, parsed) ==
    IF ~resolved.ok
    THEN /\ pc' = "raised"
         /\ ret' = <<resolved.error>>
         /\ UNCHANGED <<parsed_all, ops>>
    ELSE /\ ops' = Append(ops, parser_call(response, arg))
         /\ IF Returned(parsed.kind)
            THEN /\ parsed_all' = parsed_commands(parsed)
                 /\ pc' = "parsed"
                 /\ UNCHANGED ret
            ELSE /\ pc' = "raised"
                 /\ ret' = <<parsed.kind>>
                 /\ UNCHANGED parsed_all

ParseCustom ==
    /\ pc = "custom"
    /\ CustomParsed(resolve_custom(arg.action_parser_callable), env.custom_result)
    /\ UNCHANGED <<arg, env, responses, index, result_info,
                   response, action_strings, entry, _mss_instance>>

\* from ui_tars.action_parser import parse_action_to_structure_output
ImportUiTars ==
    /\ pc = "ui_tars"
    /\ IF env.ui_tars_installed
       THEN pc' = "ui_tars_parse" /\ UNCHANGED ret
       ELSE pc' = "raised" /\ ret' = <<"DependencyError">>
    /\ index' = 0
    /\ UNCHANGED <<arg, env, responses, result_info, ops,
                   response, action_strings, parsed_all, entry, _mss_instance>>

\* normalized = action_str.strip(); the label put before it when it has none
ui_tars_normalized(action_str) ==
    IF contains(strip(action_str), <<"A", "c", "t", "i", "o", "n", ":">>) THEN strip(action_str)
    ELSE Label \o strip(action_str)

\* Nothing caught.
caught_nothing(class) == FALSE

\* except ValueError: continue
caught(class) == class = "ValueError"

\* one iteration of the loop over action_strings
UiTarsParsed(parsed) ==
    IF Returned(parsed.kind)
    THEN /\ parsed_all' = parsed_all \o parsed_commands(parsed)
         /\ UNCHANGED <<pc, ret>>
    ELSE IF caught(parsed.kind)
    THEN UNCHANGED <<parsed_all, pc, ret>>
    ELSE /\ pc' = "raised"
         /\ ret' = <<parsed.kind>>
         /\ UNCHANGED parsed_all

ParseUiTarsNext ==
    /\ pc = "ui_tars_parse"
    /\ index < Len(action_strings)
    /\ ops' = Append(ops, [cmd |-> 0, fn |-> "parse_action_to_structure_output",
                           nums |-> <<1, arg.image_width, arg.image_height>>,
                           strs |-> <<ui_tars_normalized(action_strings[index + 1])>>])
    /\ UiTarsParsed(env.external[index + 1])
    /\ index' = index + 1
    /\ UNCHANGED <<arg, env, responses, result_info, response, action_strings, entry, _mss_instance>>

---------------------------------------------------------------------------
(* The extractor run on its own.                                           *)

MaxChunks == 4      \* most pieces a response of the extractor sweep is written from

RECURSIVE Flatten(_)
Flatten(pieces) == IF pieces = << >> THEN << >> ELSE Head(pieces) \o Flatten(Tail(pieces))

Chunks ==
    { <<"<", "A", "c", "t", "i", "o", "n", ">", "c", "l", "i", "c", "k", "(", ")", "<", "/", "A", "C", "T", "I", "O", "N", ">">>,
      <<"<", "a", "c", "t", "i", "o", "n", ">", "\n", " ", "w", "a", "i", "t", "(", ")", "\n", "<", "/", "a", "c", "t", "i", "o", "n", ">">>,
      <<"<", "a", "c", "t", "i", "o", "n", ">", " ", "<", "/", "a", "c", "t", "i", "o", "n", ">">>,
      <<"<", "a", "c", "t", "i", "o", "n", ">">>,
      <<"<", "/", "A", "C", "T", "I", "O", "N", ">">>,
      <<"A", "c", "t", "i", "o", "n", ":", " ", "t", "y", "p", "e", " ", "(", "'", "h", "i", "'", ")">>,
      <<" ", "\n">> }

ExtractorResponses == {Flatten(pieces) : pieces \in SeqsUpTo(Chunks, MaxChunks)}

InitExtractor ==
    /\ entry = "_split_multi_actions"
    /\ pc = "call"
    /\ response \in ExtractorResponses
    /\ arg = << >>
    /\ env = NoHost
    /\ ret = << >>
    /\ Idle
    /\ action_strings = << >>
    /\ parsed_all = << >>

Split ==
    /\ pc = "call"
    /\ entry = "_split_multi_actions"
    /\ action_strings' = _split_multi_actions(response)
    /\ pc' = "split"
    /\ UNCHANGED <<arg, ret, env, responses, index, result_info, ops,
                   response, parsed_all, entry, _mss_instance>>

NextExtractor == Split

SpecExtractor == InitExtractor /\ [][NextExtractor]_vars

---------------------------------------------------------------------------
(* The builtin parser run on its own.                                      *)

CallLabels == {<<>>, <<"A", "c", "t", "i", "o", "n", ":", " ">>, <<" ", "a", "c", "t", "i", "o", "n", ":">>}

CallNames ==
    {action_funcs[i] : i \in 1..Len(action_funcs)} \cup {<<"f", "o", "o", "b", "a", "r">>, <<"t", "a", "p">>, <<"C", "l", "i", "c", "k">>}

CallArgs ==
    { <<>>,
      <<"p", "o", "i", "n", "t", "=", "'", "<", "p", "o", "i", "n", "t", ">", "1", " ", "2", "<", "/", "p", "o", "i", "n", "t", ">", "'">>,
      <<"s", "t", "a", "r", "t", "_", "p", "o", "i", "n", "t", "=", "\"", "3", " ", "4", "\"", ",", " ", "e", "n", "d", "_", "p", "o", "i", "n", "t", "=", "'", "5", " ", "6", "'">>,
      <<"e", "n", "d", "_", "p", "o", "i", "n", "t", "=", "'", "5", " ", "6", "'">>,
      <<"c", "o", "n", "t", "e", "n", "t", "=", "'", "h", "i", "'">>,
      <<"c", "o", "n", "t", "e", "n", "t", "=", "'", "'">>,
      <<"k", "e", "y", "=", "'", "c", "t", "r", "l", " ", "c", "'">>,
      <<"d", "i", "r", "e", "c", "t", "i", "o", "n", "=", "'", "u", "p", "'", ",", " ", "p", "o", "i", "n", "t", " ", "=", " ", "'", "7", ".", "5", " ", "8", "'">>,
      <<"p", "o", "i", "n", "t", "=", "'", "n", "o", "w", "h", "e", "r", "e", "'">>,
      <<"s", "t", "a", "r", "t", "_", "p", "o", "i", "n", "t", "=", "'", "1", " ", "2", "'">>,
      <<"x", "c", "o", "n", "t", "e", "n", "t", "=", "'", "a", "'">>,
      <<"P", "o", "i", "n", "t", "=", "'", "1", " ", "2", "'">> }

\* an expression with the name and the arguments it was written with; call
\* tells a call name(args) from the bare name
Expression(label, name, args, call) ==
    [action_str |-> label \o name \o (IF call THEN <<"(">> \o args \o <<")">> ELSE <<>>),
     name |-> name, args |-> args, call |-> call]

ParserArgs ==
    { Expression(label, name, args, TRUE) :
        label \in CallLabels, name \in CallNames, args \in CallArgs }
    \cup
    { Expression(label, name, <<>>, FALSE) : label \in CallLabels, name \in CallNames }

InitParser ==
    /\ entry = "_parse_builtin_action"
    /\ pc = "call"
    /\ arg \in ParserArgs
    /\ env = NoHost
    /\ ret = << >>
    /\ Idle
    /\ NoText

ParseBuiltin ==
    /\ pc = "call"
    /\ entry = "_parse_builtin_action"
    /\ ret' = _parse_builtin_action(arg.action_str)
    /\ pc' = "parsed"
    /\ UNCHANGED <<arg, env, responses, index, result_info, ops,
                   response, action_strings, parsed_all, entry, _mss_instance>>

NextParser == ParseBuiltin

SpecParser == InitParser /\ [][NextParser]_vars

---------------------------------------------------------------------------
(* parse_and_execute_action with the builtin parser.                       *)

MaxExprs == 3       \* most expressions a response of the pipeline sweep holds

PipelineExprs ==
    { <<"c", "l", "i", "c", "k", "(", "p", "o", "i", "n", "t", "=", "'", "<", "p", "o", "i", "n", "t", ">", "5", "0", "0", " ", "5", "0", "0", "<", "/", "p", "o", "i", "n", "t", ">", "'", ")">>,
      <<"t", "y", "p", "e", "(", "c", "o", "n", "t", "e", "n", "t", "=", "'", "h", "i", "'", ")">>,
      <<"h", "o", "t", "k", "e", "y", "(", "k", "e", "y", "=", "'", "c", "t", "r", "l", " ", "c", "'", ")">>,
      <<"d", "r", "a", "g", "(", "s", "t", "a", "r", "t", "_", "p", "o", "i", "n", "t", "=", "'", "1", " ", "2", "'", ")">>,
      <<"w", "a", "i", "t", "(", ")">>,
      <<"f", "i", "n", "i", "s", "h", "e", "d", "(", ")">>,
      <<"f", "i", "n", "i", "s", "h", "e", "d", "(", "c", "o", "n", "t", "e", "n", "t", "=", "'", "<", "p", "o", "i", "n", "t", ">", "1", " ", "2", "<", "/", "p", "o", "i", "n", "t", ">", "'", ")">>,
      <<"f", "o", "o", "b", "a", "r", "(", "x", "=", "1", ")">>,
      <<"r", "e", "t", "y", "p", "e", "(", "c", "o", "n", "t", "e", "n", "t", "=", "'", "x", "'", ")">> }

Delimited(exprs) ==
    Flatten([i \in 1..Len(exprs) |-> OpenMarker \o exprs[i] \o CloseMarker \o <<"\n">>])

Bare(exprs) == Flatten([i \in 1..Len(exprs) |-> exprs[i] \o <<"\n">>])

\* the arguments besides the response, with the expressions the response was
\* written from and its layout
PipelineArgs(exprs, delimited) ==
    [image_height |-> 1080, image_width |-> 1920, scale_factor |-> COORDINATE_SCALE,
     action_parser |-> <<"b", "u", "i", "l", "t", "i", "n">>, exprs |-> exprs, delimited |-> delimited]

InitPipeline ==
    /\ entry = "parse_and_execute_action"
    /\ pc = "call"
    /\ \E exprs \in SeqsUpTo(PipelineExprs, MaxExprs), delimited \in BOOLEAN :
          /\ arg = PipelineArgs(exprs, delimited)
          /\ response = IF delimited THEN Delimited(exprs) ELSE Bare(exprs)
    /\ env \in Hosts
    /\ ret = << >>
    /\ Idle
    /\ action_strings = << >>
    /\ parsed_all = << >>

\* action_strings = _split_multi_actions(response); parsed_all = []
Extract ==
    /\ pc = "call"
    /\ Parsing
    /\ action_strings' = _split_multi_actions(response)
    /\ parsed_all' = << >>
    /\ index' = 0
    /\ pc' = backend_pc(parser_name(arg.action_parser))
    /\ UNCHANGED <<arg, ret, env, responses, result_info, ops, response, entry, _mss_instance>>

parsed_append(all, parsed) == IF parsed.ok THEN Append(all, parsed.cmd) ELSE all

\* for action_str in action_strings: one iteration
ParseNext ==
    /\ pc = "parse"
    /\ index < Len(action_strings)
    /\ parsed_all' = parsed_append(parsed_all, _parse_builtin_action(action_strings[index + 1]))
    /\ index' = index + 1
    /\ UNCHANGED <<pc, arg, ret, env, responses, result_info, ops,
                   response, action_strings, entry, _mss_instance>>

\* The branch of the parser left before its end.
ParsingBegun == pc \in {"parse", "ui_tars_parse", "parsed"}

\* the branch of the parser has come to its end
ParsingDone ==
    \/ pc \in {"parse", "ui_tars_parse"} /\ index = Len(action_strings)
    \/ pc = "parsed"

\* An empty batch reported as triggered.
TriggeredEmpty == [triggered |-> TRUE, result |-> << >>, first_type |-> << >>]

\* return False, [], None
NotTriggered == [triggered |-> FALSE, result |-> << >>, first_type |-> << >>]

\* if not parsed_all: return False, [], None
ReturnNotTriggered ==
    /\ ParsingDone
    /\ parsed_all = << >>
    /\ ret' = NotTriggered
    /\ pc' = "done"
    /\ UNCHANGED <<arg, env, responses, index, result_info, ops,
                   response, action_strings, parsed_all, entry, _mss_instance>>

\* result = execute_pyautogui_action(deps, parsed_all, ...): the call
Dispatch ==
    /\ ParsingDone
    /\ parsed_all # << >>
    /\ responses' = parsed_all
    /\ index' = 0
    /\ result_info' = << >>
    /\ pc' = "loop"
    /\ UNCHANGED <<arg, ret, env, ops, response, action_strings, parsed_all, entry, _mss_instance>>

\* return True, result, first_type
ReturnTriggered ==
    /\ pc = "returned"
    /\ Parsing
    /\ ret' = [triggered |-> TRUE, result |-> ret, first_type |-> parsed_all[1].action_type]
    /\ pc' = "done"
    /\ UNCHANGED <<arg, env, responses, index, result_info, ops,
                   response, action_strings, parsed_all, entry, _mss_instance>>

NextPipeline ==
    Extract \/ ParseNext \/ ReturnNotTriggered \/ Dispatch \/ Iterate \/ Return
    \/ ReturnTriggered

SpecPipeline == InitPipeline /\ [][NextPipeline]_vars

---------------------------------------------------------------------------
(* parse_and_execute_action with each of its parsers.                      *)

\* the values of action_parser: none, the three names, and a name of no parser
ParserNames == {<<>>, <<"b", "u", "i", "l", "t", "i", "n">>, <<" ", "C", "u", "s", "t", "o", "m", "\n">>, <<"c", "u", "s", "t", "o", "m">>, <<"u", "i", "_", "t", "a", "r", "s">>, <<"U", "I", "_", "T", "A", "R", "S">>, <<"n", "o", "t", "h", "i", "n", "g">>}

\* the values of action_parser_callable
CallablePaths ==
    {<<>>, <<"m", "y", "_", "p", "a", "r", "s", "e", "r", "s", ".", "p", "a", "r", "s", "e">>, <<"n", "o", "m", "o", "d", "u", "l", "e", ":", "p", "a", "r", "s", "e">>, <<"m", "y", "_", "p", "a", "r", "s", "e", "r", "s", ":", "m", "i", "s", "s", "i", "n", "g">>,
     <<"m", "y", "_", "p", "a", "r", "s", "e", "r", "s", ":", "T", "A", "B", "L", "E">>, <<"m", "y", "_", "p", "a", "r", "s", "e", "r", "s", ":", "p", "a", "r", "s", "e">>, <<"m", "y", "_", "p", "a", "r", "s", "e", "r", "s", ":", "p", "a", "r", "s", "e", ":", "x">>}

ClickCommand == Command(<<"c", "l", "i", "c", "k">>, WithInputs(<< <<"start_box", Point(500, 500)>> >>))
TypeCommand == Command(<<"t", "y", "p", "e">>, WithInputs(<< <<"content", Str(<<"h", "i">>)>> >>))
WaitCommand == Command(<<"w", "a", "i", "t">>, NoInputs)
FinishedCommand == Command(<<"f", "i", "n", "i", "s", "h", "e", "d">>, NoInputs)

\* what the parser outside the engine may give back
ParserResults ==
    { ReturnsDict(ClickCommand), ReturnsDict(FinishedCommand),
      ReturnsList(<<DictItem(TypeCommand), DictItem(WaitCommand)>>),
      ReturnsList(<<OtherItem, DictItem(WaitCommand), DictItem(ClickCommand)>>),
      ReturnsList(<< >>),
      ReturnsNone, ReturnsOther, RaisesError("ValueError"), RaisesError("TypeError") }

\* what the parser of ui_tars may do with one expression
ExternalResults ==
    { ReturnsDict(ClickCommand),
      ReturnsList(<<DictItem(TypeCommand), OtherItem, DictItem(WaitCommand)>>),
      ReturnsNone, RaisesError("ValueError"), RaisesError("TypeError") }

NoResult == ReturnsNone

\* the host with the parsers of it: what the registered parser returns, whether
\* ui_tars can be imported and what its parser does with each expression in turn
BackendHost(custom_result, installed, external) ==
    [sysname |-> "Linux", screen_height |-> 1080, custom_result |-> custom_result,
     ui_tars_installed |-> installed, external |-> external]

BackendArgs(name, path) ==
    [image_height |-> 1080, image_width |-> 1920, scale_factor |-> COORDINATE_SCALE,
     action_parser |-> name, action_parser_callable |-> path]

WaitExpression == <<"w", "a", "i", "t", "(", ")">>

\* a response of n delimited expressions
RECURSIVE Repeated(_, _)
Repeated(x, n) == IF n = 0 THEN << >> ELSE <<x>> \o Repeated(x, n - 1)

BackendResponses == {Delimited(Repeated(WaitExpression, n)) : n \in 1..MaxExprs}

InitBackends ==
    /\ entry = "parse_and_execute_action"
    /\ pc = "call"
    /\ \/ \E name \in {n \in ParserNames : backend_pc(parser_name(n)) = "custom"},
             path \in CallablePaths, r \in ParserResults :
             /\ arg = BackendArgs(name, path)
             /\ env = BackendHost(r, FALSE, << >>)
             /\ response = Delimited(<<WaitExpression>>)
       \/ \E name \in {n \in ParserNames : backend_pc(parser_name(n)) = "ui_tars"},
             installed \in BOOLEAN, text \in BackendResponses :
             /\ arg = BackendArgs(name, <<" ">>)
             /\ response = text
             /\ \E external \in [1..Len(_split_multi_actions(text)) -> ExternalResults] :
                   env = BackendHost(NoResult, installed, external)
       \/ \E name \in {n \in ParserNames : backend_pc(parser_name(n)) = "parse"},
             text \in BackendResponses :
             /\ arg = BackendArgs(name, <<" ">>)
             /\ env = BackendHost(NoResult, FALSE, << >>)
             /\ response = text
    /\ ret = << >>
    /\ Idle
    /\ action_strings = << >>
    /\ parsed_all = << >>

NextBackends ==
    \/ Extract
    \/ ParseCustom
    \/ ImportUiTars
    \/ ParseUiTarsNext
    \/ ParseNext
    \/ ReturnNotTriggered
    \/ Dispatch
    \/ Iterate
    \/ Return
    \/ ReturnTriggered

SpecBackends == InitBackends /\ [][NextBackends]_vars
---------------------------------------------------------------------------
(* capture_screenshot and the handle of the screen-capture device, kept in *)
(* the global _mss_instance from one capture to the next.                  *)

MaxCaptures == 4    \* captures made one after another in one process

Event(fn, nums) == [cmd |-> 0, fn |-> fn, nums |-> nums, strs |-> << >>]

\* the calls of the constructor mss.mss() among the events
Constructions(events) == SelectSeq(events, LAMBDA e : e.fn = "mss.mss")

\* the calls of sct.grab among the events
Grabs(events) == SelectSeq(events, LAMBDA e : e.fn = "sct.grab")

\* The handle made anew at every capture.
_get_mss_instance_anew(current, made) == Some(made)

\* if _mss_instance is None: _mss_instance = mss_module.mss()
\* current is the global, made the handle the constructor would return
_get_mss_instance(current, made) == IF current = None THEN Some(made) ELSE current

\* sct.monitors[1] if len(sct.monitors) > 1 else sct.monitors[0]
monitor_of(monitors) == IF Len(monitors) > 1 THEN monitors[2] ELSE monitors[1]

Monitor(width, height) == [width |-> width, height |-> height]

\* sct.monitors: the whole desktop first, then the monitors one by one
MonitorLists ==
    { <<Monitor(1920, 1080)>>,
      <<Monitor(3840, 1080), Monitor(1920, 1080), Monitor(1920, 1080)>>,
      <<Monitor(2720, 1080), Monitor(800, 600), Monitor(1920, 1080)>> }

CaptureHost(monitors) == [monitors |-> monitors]

\* the locals of capture_screenshot: sct, and width, height of the screenshot
CaptureArgs == [sct |-> 0, image_width |-> 0, image_height |-> 0]

InitCapture ==
    /\ entry = "capture_screenshot"
    /\ pc = "idle"
    /\ arg = CaptureArgs
    /\ env \in {CaptureHost(monitors) : monitors \in MonitorLists}
    /\ ret = << >>
    /\ Idle
    /\ NoText

\* the single caller calls capture_screenshot, once more
CallCapture ==
    /\ pc \in {"idle", "captured", "raised"}
    /\ entry = "capture_screenshot"
    /\ index < MaxCaptures
    /\ index' = index + 1
    /\ arg' = CaptureArgs
    /\ ret' = << >>
    /\ pc' = "capture"
    /\ UNCHANGED <<env, responses, result_info, ops, response, action_strings,
                   parsed_all, entry, _mss_instance>>

\* sct = _get_mss_instance(deps["mss"]), the constructor returning a handle
\* when it is called
GetMssInstance ==
    /\ pc = "capture"
    /\ LET made == Len(Constructions(ops)) + 1
           sct == _get_mss_instance(_mss_instance, made)
       IN  /\ _mss_instance' = sct
           /\ arg' = [arg EXCEPT !.sct = sct.v]
           /\ ops' = IF sct = _mss_instance THEN ops
                     ELSE Append(ops, Event("mss.mss", <<made>>))
    /\ pc' = "grab"
    /\ UNCHANGED <<ret, env, responses, index, result_info, response,
                   action_strings, parsed_all, entry>>

\* the constructor is called and raises: the global is left as it was
GetMssInstanceFails ==
    /\ pc = "capture"
    /\ _mss_instance = None
    /\ ops' = Append(ops, Event("mss.mss", << >>))
    /\ ret' = <<"ScreenShotError">>
    /\ pc' = "raised"
    /\ UNCHANGED <<arg, env, responses, index, result_info, response,
                   action_strings, parsed_all, entry, _mss_instance>>

\* sct.grab(monitor), Image.frombytes, screenshot.size
Grab ==
    /\ pc = "grab"
    /\ ops' = Append(ops, Event("sct.grab", <<arg.sct, monitor_of(env.monitors).width,
                                              monitor_of(env.monitors).height>>))
    /\ arg' = [arg EXCEPT !.image_width = monitor_of(env.monitors).width,
                          !.image_height = monitor_of(env.monitors).height]
    /\ pc' = "captured"
    /\ UNCHANGED <<ret, env, responses, index, result_info, response,
                   action_strings, parsed_all, entry, _mss_instance>>

\* sct.grab raises
GrabFails ==
    /\ pc = "grab"
    /\ ops' = Append(ops, Event("sct.grab", <<arg.sct>>))
    /\ ret' = <<"ScreenShotError">>
    /\ pc' = "raised"
    /\ UNCHANGED <<arg, env, responses, index, result_info, response,
                   action_strings, parsed_all, entry, _mss_instance>>

NextCapture ==
    \/ CallCapture
    \/ GetMssInstance
    \/ GetMssInstanceFails
    \/ Grab
    \/ GrabFails

SpecCapture == InitCapture /\ [][NextCapture]_vars

---------------------------------------------------------------------------
(* auto_screen_operation: one invocation, from the screenshot to the       *)
(* result record, with the calls of pyautogui and pyperclip able to fail.  *)

ExecutionDelayMs == 500     \* time.sleep(0.5) before parse_and_execute_action

\* AutomationResult, without the timing
AutomationResult(success, size, text, result, triggered, action_type, error) ==
    [success |-> success, image_size |-> size, response |-> text,
     execution_result |-> result, action_triggered |-> triggered,
     action_type |-> action_type, error |-> error]

\* The steps made before the error kept in the result.
failure_result_with_steps(error, steps) ==
    AutomationResult(FALSE, None, None, Some(steps), FALSE, None, Some(error))

\* except Exception as exc: the result of a failed invocation
failure_result(error, steps) ==
    AutomationResult(FALSE, None, None, None, FALSE, None, Some(error))

\* the result of an invocation that came to its end, r what
\* parse_and_execute_action returned
success_result(a, text, r) ==
    AutomationResult(TRUE, Some(<<a.image_width, a.image_height>>), Some(text),
                     Some(r.result), r.triggered,
                     IF r.triggered THEN Some(r.first_type) ELSE None, None)

\* execution_result = None, action_triggered = False, action_type = None
not_executed_result(a, text) ==
    AutomationResult(TRUE, Some(<<a.image_width, a.image_height>>), Some(text),
                     None, FALSE, None, None)

\* the error of a call of pyautogui or pyperclip
InjectionError == "FailSafeException"

InvocationHost(custom_result, installed, external) ==
    [sysname |-> "Linux", screen_height |-> 1080, custom_result |-> custom_result,
     ui_tars_installed |-> installed, external |-> external,
     monitors |-> <<Monitor(3840, 1080), Monitor(1920, 1080), Monitor(1920, 1080)>>,
     service |-> "sweep"]

\* the arguments, with the locals img_width and img_height, unset before the
\* screenshot, and sct of capture_screenshot
InvocationArgs(name, path, execute_action) ==
    [image_height |-> 0, image_width |-> 0, scale_factor |-> COORDINATE_SCALE,
     action_parser |-> name, action_parser_callable |-> path,
     execute_action |-> execute_action, api_key |-> <<"s", "k", "-", "1">>, sct |-> 0]

InvocationExprs ==
    { <<"c", "l", "i", "c", "k", "(", "p", "o", "i", "n", "t", "=", "'", "<", "p", "o", "i", "n", "t", ">", "5", "0", "0", " ", "5", "0", "0", "<", "/", "p", "o", "i", "n", "t", ">", "'", ")">>,
      <<"t", "y", "p", "e", "(", "c", "o", "n", "t", "e", "n", "t", "=", "'", "o", "k", "\n", "'", ")">>,
      <<"f", "i", "n", "i", "s", "h", "e", "d", "(", ")">>,
      <<"f", "i", "n", "i", "s", "h", "e", "d", "(", "c", "o", "n", "t", "e", "n", "t", "=", "'", "<", "p", "o", "i", "n", "t", ">", "1", " ", "2", "<", "/", "p", "o", "i", "n", "t", ">", "'", ")">>,
      <<"f", "o", "o", "b", "a", "r", "(", "x", "=", "1", ")">> }

\* the responses of the model, by the parser they are for
InvocationResponses(a) ==
    IF backend_pc(parser_name(a.action_parser)) = "parse"
    THEN {Delimited(exprs) : exprs \in SeqsUpTo(InvocationExprs, MaxExprs)}
    ELSE {Delimited(Repeated(WaitExpression, n)) : n \in 1..MaxPair}

InitInvocation ==
    /\ entry = "auto_screen_operation"
    /\ pc = "invoke"
    /\ \/ \E execute_action \in BOOLEAN :
             /\ arg = InvocationArgs(<<"b", "u", "i", "l", "t", "i", "n">>, <<>>, execute_action)
             /\ env = InvocationHost(NoResult, FALSE, << >>)
       \/ /\ arg = [InvocationArgs(<<"b", "u", "i", "l", "t", "i", "n">>, <<>>, TRUE) EXCEPT !.api_key = <<>>]
          /\ env = InvocationHost(NoResult, FALSE, << >>)
       \/ \E path \in {<<"m", "y", "_", "p", "a", "r", "s", "e", "r", "s", ":", "T", "A", "B", "L", "E">>, <<"m", "y", "_", "p", "a", "r", "s", "e", "r", "s", ":", "p", "a", "r", "s", "e">>},
             r \in {ReturnsNone, ReturnsDict(ClickCommand), RaisesError("TypeError")} :
             /\ arg = InvocationArgs(<<"c", "u", "s", "t", "o", "m">>, path, TRUE)
             /\ env = InvocationHost(r, FALSE, << >>)
       \/ \E installed \in BOOLEAN,
             external \in [1..MaxPair -> {ReturnsDict(ClickCommand), RaisesError("ValueError")}] :
             /\ arg = InvocationArgs(<<"u", "i", "_", "t", "a", "r", "s">>, <<>>, TRUE)
             /\ env = InvocationHost(NoResult, installed, external)
    /\ ret = << >>
    /\ Idle
    /\ NoText

\* the answers of the model service of the host: any of the sweep, or one
\* of three
Answers(a, host) ==
    IF host.service = "clicks" /\ backend_pc(parser_name(a.action_parser)) = "parse"
    THEN { Delimited(<<<<"c", "l", "i", "c", "k", "(", "p", "o", "i", "n", "t", "=", "'", "<", "p", "o", "i", "n", "t", ">", "5", "0", "0", " ", "5", "0", "0", "<", "/", "p", "o", "i", "n", "t", ">", "'", ")">>>>),
           Delimited(<<<<"t", "y", "p", "e", "(", "c", "o", "n", "t", "e", "n", "t", "=", "'", "o", "k", "\n", "'", ")">>, <<"f", "i", "n", "i", "s", "h", "e", "d", "(", ")">>>>),
           Delimited(<<<<"f", "o", "o", "b", "a", "r", "(", "x", "=", "1", ")">>>>) }
    ELSE InvocationResponses(a) \ {<< >>}

\* deps = _import_gui_dependencies()
ImportDependencies ==
    /\ pc = "invoke"
    /\ ops' = Append(ops, Event("_import_gui_dependencies", << >>))
    /\ pc' = "capture"
    /\ UNCHANGED <<arg, ret, env, responses, index, result_info,
                   response, action_strings, parsed_all, entry, _mss_instance>>

\* one of the imports raises ModuleNotFoundError
ImportDependenciesFails ==
    /\ pc = "invoke"
    /\ ops' = Append(ops, Event("_import_gui_dependencies", << >>))
    /\ ret' = <<"DependencyError">>
    /\ pc' = "raised"
    /\ UNCHANGED <<arg, env, responses, index, result_info,
                   response, action_strings, parsed_all, entry, _mss_instance>>

\* if not api_key: raise ValueError
call_model_inference(api_key) == IF api_key = << >> THEN "raised" ELSE "post"

\* build_conversation and call_model_inference, up to the request
CallModel ==
    /\ pc = "captured"
    /\ entry = "auto_screen_operation"
    /\ pc' = call_model_inference(arg.api_key)
    /\ ret' = IF pc' = "raised" THEN <<"ValueError">> ELSE ret
    /\ UNCHANGED <<arg, env, responses, index, result_info, ops,
                   response, action_strings, parsed_all, entry, _mss_instance>>

\* client.post, and the content of the first choice of the answer, which is
\* not empty (if not content: raise ValueError)
Post ==
    /\ pc = "post"
    /\ ops' = Append(ops, Event("client.post", << >>))
    /\ \E text \in Answers(arg, env) : response' = text
    /\ pc' = "observed"
    /\ UNCHANGED <<arg, ret, env, responses, index, result_info,
                   action_strings, parsed_all, entry, _mss_instance>>

\* the request fails, the status is 400 or more, or the answer has no
\* choices or no content
PostFails ==
    /\ pc = "post"
    /\ ops' = Append(ops, Event("client.post", << >>))
    /\ \E error \in {"ConnectError", "ValueError"} : ret' = <<error>>
    /\ pc' = "raised"
    /\ UNCHANGED <<arg, env, responses, index, result_info,
                   response, action_strings, parsed_all, entry, _mss_instance>>

\* if execute_action: time.sleep(0.5), then the call of parse_and_execute_action
Execute ==
    /\ pc = "observed"
    /\ arg.execute_action
    /\ ops' = Append(ops, [cmd |-> 0, fn |-> "time.sleep",
                           nums |-> <<ExecutionDelayMs>>, strs |-> << >>])
    /\ pc' = "call"
    /\ UNCHANGED <<arg, ret, env, responses, index, result_info,
                   response, action_strings, parsed_all, entry, _mss_instance>>

\* execute_action is false: the result without an execution
ReturnNotExecuted ==
    /\ pc = "observed"
    /\ ~arg.execute_action
    /\ ret' = not_executed_result(arg, response)
    /\ pc' = "success"
    /\ UNCHANGED <<arg, env, responses, index, result_info, ops,
                   response, action_strings, parsed_all, entry, _mss_instance>>

\* the positions of the calls of pyautogui and pyperclip among the events
injections(events) == {n \in 1..Len(events) : events[n].fn \in InjectionFns}

\* The error of a call caught and the loop gone on with.
failure_swallowed(b) == IF b.stop THEN "returned" ELSE "loop"

\* no try around the calls: the error leaves the loop and the function
failure_propagates(b) == "raised"

\* the body of the loop up to its n-th event, a call that raises
Failing(position, b, n) ==
    /\ ops' = ops \o Tagged(SubSeq(b.ops, 1, n), position)
                  \o <<[cmd |-> position, fn |-> "raise", nums |-> << >>,
                        strs |-> << >>]>>
    /\ result_info' = result_info \o steps_of(SubSeq(b.ops, 1, n))
    /\ index' = index + 1
    /\ pc' = failure_propagates(b)
    /\ ret' = <<InjectionError>>

FailingAt(position, b) == \E n \in injections(b.ops) : Failing(position, b, n)

\* one iteration of the loop in which a call of pyautogui or pyperclip raises
IterateFailing ==
    /\ pc = "loop"
    /\ index < Len(responses)
    /\ FailingAt(enumerate(responses, index),
                 loop_body(responses[enumerate(responses, index)], index, arg, env))
    /\ UNCHANGED <<arg, env, responses, response, action_strings, parsed_all, entry, _mss_instance>>

\* return AutomationResult(success=True, ...)
Succeed ==
    /\ pc = "done"
    /\ entry = "auto_screen_operation"
    /\ ret' = success_result(arg, response, ret)
    /\ pc' = "success"
    /\ UNCHANGED <<arg, env, responses, index, result_info, ops,
                   response, action_strings, parsed_all, entry, _mss_instance>>

\* the error of a raise, the class of it, or that of the dispatcher's own raise
error_of(r) == IF r = << >> THEN "Exception" ELSE r[1]

\* except Exception as exc: return AutomationResult(success=False, ...)
Fail ==
    /\ pc = "raised"
    /\ entry = "auto_screen_operation"
    /\ ret' = failure_result(error_of(ret), result_info)
    /\ pc' = "failure"
    /\ UNCHANGED <<arg, env, responses, index, result_info, ops,
                   response, action_strings, parsed_all, entry, _mss_instance>>

NextInvocation ==
    \/ ImportDependencies
    \/ ImportDependenciesFails
    \/ GetMssInstance
    \/ GetMssInstanceFails
    \/ Grab
    \/ GrabFails
    \/ CallModel
    \/ Post
    \/ PostFails
    \/ Execute
    \/ ReturnNotExecuted
    \/ Extract
    \/ ParseCustom
    \/ ImportUiTars
    \/ ParseUiTarsNext
    \/ ParseNext
    \/ ReturnNotTriggered
    \/ Dispatch
    \/ Iterate
    \/ IterateFailing
    \/ Return
    \/ ReturnTriggered
    \/ Succeed
    \/ Fail

SpecInvocation == InitInvocation /\ [][NextInvocation]_vars
---------------------------------------------------------------------------
(* config.py: resolve_runtime_config.  A value given on the command line,  *)
(* in the environment or in the config file is None or a text, which may   *)
(* be empty.                                                               *)

ConfigFields == {"api_key", "model", "base_url", "action_parser", "action_parser_callable"}

\* a or b of Python, for values that are None or a text
or_else(a, b) == IF a.some /\ a.v # << >> THEN a ELSE b

IsSet(a) == a.some /\ a.v # << >>

\* a key of the config file: absent, or present with null or a text
Absent == [present |-> FALSE, val |-> None]
Present(val) == [present |-> TRUE, val |-> val]

\* raw.get(key) and raw.get(key, default)
raw_get(raw, key) == IF raw[key].present THEN raw[key].val ELSE None
raw_get_or(raw, key, default) == IF raw[key].present THEN raw[key].val ELSE Some(default)

\* MigiConfig(), and MigiConfig(provider=..., ...)
MigiConfig(provider, api_key, model, base_url, action_parser, action_parser_callable) ==
    [provider |-> provider, api_key |-> api_key, model |-> model, base_url |-> base_url,
     action_parser |-> action_parser, action_parser_callable |-> action_parser_callable]

DefaultConfig == MigiConfig(Some(<<"o", "p", "e", "n", "a", "i", "-", "c", "o", "m", "p", "a", "t", "i", "b", "l", "e">>), None, None, None, Some(<<"d", "o", "u", "b", "a", "o">>), None)

\* if not path.exists(): return MigiConfig(); else the keys of the file
load_file_config(file) ==
    IF ~file.exists THEN DefaultConfig
    ELSE MigiConfig(raw_get_or(file.raw, "provider", <<"o", "p", "e", "n", "a", "i", "-", "c", "o", "m", "p", "a", "t", "i", "b", "l", "e">>),
                    raw_get(file.raw, "api_key"), raw_get(file.raw, "model"),
                    raw_get(file.raw, "base_url"),
                    raw_get_or(file.raw, "action_parser", <<"d", "o", "u", "b", "a", "o">>),
                    raw_get(file.raw, "action_parser_callable"))

\* "config" if file_cfg.action_parser else "default"
source_of_parser(file, file_cfg) == IF IsSet(file_cfg.action_parser) THEN "config" ELSE "default"

\* if cli: ... elif os.environ.get(ENV): ... else: file_cfg value
value_of(cli, environ, file_value) ==
    IF IsSet(cli) THEN cli ELSE IF IsSet(environ) THEN environ ELSE file_value

source_of(cli, environ, file_label) ==
    IF IsSet(cli) THEN "cli" ELSE IF IsSet(environ) THEN "env" ELSE file_label

unset_or_config(file_value) == IF IsSet(file_value) THEN "config" ELSE "unset"

\* the pair (MigiConfig, sources) returned
resolve_runtime_config(cli, environ, file, file_cfg) ==
    [config |->
        MigiConfig(or_else(cli.provider, or_else(file_cfg.provider, Some(<<"o", "p", "e", "n", "a", "i", "-", "c", "o", "m", "p", "a", "t", "i", "b", "l", "e">>))),
                   value_of(cli.api_key, environ.api_key, file_cfg.api_key),
                   value_of(cli.model, environ.model, file_cfg.model),
                   value_of(cli.base_url, environ.base_url, file_cfg.base_url),
                   value_of(cli.action_parser, environ.action_parser,
                            or_else(file_cfg.action_parser, Some(<<"d", "o", "u", "b", "a", "o">>))),
                   value_of(cli.action_parser_callable, environ.action_parser_callable,
                            file_cfg.action_parser_callable)),
     sources |->
        [provider |-> IF IsSet(cli.provider) THEN "cli"
                      ELSE IF IsSet(file_cfg.provider) THEN "config" ELSE "default",
         api_key |-> source_of(cli.api_key, environ.api_key, unset_or_config(file_cfg.api_key)),
         model |-> source_of(cli.model, environ.model, unset_or_config(file_cfg.model)),
         base_url |-> source_of(cli.base_url, environ.base_url,
                                unset_or_config(file_cfg.base_url)),
         action_parser |-> source_of(cli.action_parser, environ.action_parser,
                                     source_of_parser(file, file_cfg)),
         action_parser_callable |->
             source_of(cli.action_parser_callable, environ.action_parser_callable,
                       unset_or_config(file_cfg.action_parser_callable))]]

\* the texts a field is given, by its origin
GivenText(field, origin) ==
    CASE field = "api_key" ->
            (IF origin = "cli" THEN <<"s", "k", "-", "c">> ELSE IF origin = "env" THEN <<"s", "k", "-", "e">> ELSE <<"s", "k", "-", "f">>)
      [] field = "model" ->
            (IF origin = "cli" THEN <<"m", "-", "c">> ELSE IF origin = "env" THEN <<"m", "-", "e">> ELSE <<"m", "-", "f">>)
      [] field = "base_url" ->
            (IF origin = "cli" THEN <<"h", "t", "t", "p", ":", "/", "/", "c">> ELSE IF origin = "env" THEN <<"h", "t", "t", "p", ":", "/", "/", "e">>
             ELSE <<"h", "t", "t", "p", ":", "/", "/", "f">>)
      [] field = "action_parser" ->
            (IF origin = "cli" THEN <<"c", "u", "s", "t", "o", "m">> ELSE IF origin = "env" THEN <<"u", "i", "_", "t", "a", "r", "s">>
             ELSE <<"d", "o", "u", "b", "a", "o">>)
      [] field = "action_parser_callable" ->
            (IF origin = "cli" THEN <<"c", ":", "p", "a", "r", "s", "e">> ELSE IF origin = "env" THEN <<"e", ":", "p", "a", "r", "s", "e">>
             ELSE <<"f", ":", "p", "a", "r", "s", "e">>)
      [] OTHER -> <<"o", "p", "e", "n", "a", "i", "-", "c", "o", "m", "p", "a", "t", "i", "b", "l", "e">>

AllFields == ConfigFields \cup {"provider"}

\* nothing given on the command line or in the environment; a file without keys
NothingGiven == [f \in AllFields |-> None]
NoKeys == [f \in AllFields |-> Absent]

\* every field given by the origin
AllGiven(origin) == [f \in AllFields |-> Some(GivenText(f, origin))]
AllKeys == [f \in AllFields |-> Present(Some(GivenText(f, "config")))]

GivenChoices(field, origin) == {None, Some(<<>>), Some(GivenText(field, origin))}

KeyChoices(field) == {Absent, Present(None), Present(Some(<<>>)),
                      Present(Some(GivenText(field, "config")))}

\* the others all missing; those of the file given; those of the file and
\* of the environment; all of them
Rests == {<<FALSE, FALSE, FALSE>>, <<FALSE, FALSE, TRUE>>,
          <<FALSE, TRUE, TRUE>>, <<TRUE, TRUE, TRUE>>}

\* the arguments with the field f given as c on the command line, as e in
\* the environment and as k in the file
ConfigArg(f, c, e, k, exists, rest) ==
    [cli |-> [(IF rest[1] THEN [AllGiven("cli") EXCEPT !.provider = None]
               ELSE NothingGiven) EXCEPT ![f] = c],
     environ |-> [(IF rest[2] THEN AllGiven("env") ELSE NothingGiven) EXCEPT ![f] = e],
     file |-> [exists |-> exists,
               raw |-> IF exists
                       THEN [(IF rest[3] THEN AllKeys ELSE NoKeys) EXCEPT ![f] = k]
                       ELSE NoKeys]]

\* the arguments of the command line, the environment and the config file:
\* one field drawn in full, the others all given or all missing
ConfigArgs ==
    UNION { { ConfigArg(f, c, e, k, exists, rest) :
                c \in GivenChoices(f, "cli"), e \in GivenChoices(f, "env"),
                k \in KeyChoices(f), exists \in BOOLEAN, rest \in Rests } :
            f \in ConfigFields }

InitConfig ==
    /\ entry = "resolve_runtime_config"
    /\ pc = "call"
    /\ arg \in ConfigArgs
    /\ env = [sysname |-> "Linux"]
    /\ ret = << >>
    /\ Idle
    /\ NoText

\* file_cfg = load_file_config(path=path, cwd=cwd)
LoadFileConfig ==
    /\ pc = "call"
    /\ entry = "resolve_runtime_config"
    /\ ret' = load_file_config(arg.file)
    /\ pc' = "loaded"
    /\ UNCHANGED <<arg, env, responses, index, result_info, ops,
                   response, action_strings, parsed_all, entry, _mss_instance>>

\* the rest of resolve_runtime_config
Resolve ==
    /\ pc = "loaded"
    /\ entry = "resolve_runtime_config"
    /\ ret' = resolve_runtime_config(arg.cli, arg.environ, arg.file, ret)
    /\ pc' = "resolved"
    /\ UNCHANGED <<arg, env, responses, index, result_info, ops,
                   response, action_strings, parsed_all, entry, _mss_instance>>

NextConfig ==
    \/ LoadFileConfig
    \/ Resolve

SpecConfig == InitConfig /\ [][NextConfig]_vars
---------------------------------------------------------------------------
(* cli.py: main, for the commands see, act and status, with the automation *)
(* of auto_screen_operation run step by step.                              *)

\* ResultBuilder.ok and ResultBuilder.fail, without message, detail, hint
\* and meta
ok(command, code, data) ==
    [ok |-> TRUE, command |-> command, code |-> code, data |-> data, error |-> None]

fail(command, code, error_type, data) ==
    [ok |-> FALSE, command |-> command, code |-> code, data |-> data,
     error |-> Some(error_type)]

NoData == [sources |-> << >>]

\* The exit code 0 whatever the payload.
exit_code_zero(payload) == 0

\* return 0 if payload.get("ok") else 2
exit_code(payload) == IF payload.ok THEN 0 ELSE 2

\* The command see executing as act does.
execute_action_unless_no_exec(command, no_exec) == ~no_exec

\* execute_action = False if command == "see" else (not args.no_exec)
execute_action_of(command, no_exec) == IF command = "see" THEN FALSE ELSE ~no_exec

\* None as the empty text
text_of(option) == IF option.some THEN option.v ELSE << >>

\* the command line as parse_args takes it: a line with -h or --help, a line
\* argparse rejects, or the Namespace of a line it accepts
HelpLine == "help"
RejectedLine == "rejected"
AcceptedLine == "accepted"

\* the Namespace, the environment and the config file, with the arguments
\* and locals of auto_screen_operation unset
CliArgs(line, command, no_exec, given) ==
    [line |-> line, command |-> command, no_exec |-> no_exec,
     cli |-> given.cli, environ |-> given.environ, file |-> given.file,
     image_height |-> 0, image_width |-> 0, scale_factor |-> COORDINATE_SCALE,
     action_parser |-> << >>, action_parser_callable |-> << >>,
     execute_action |-> FALSE, api_key |-> << >>, sct |-> 0]

NoFile == [exists |-> FALSE, raw |-> NoKeys]

\* nothing configured; the key on the command line; the key in the
\* environment and the custom parser on the command line without a
\* callable; the key, the custom parser and its callable in the file
GivenSets ==
    { [cli |-> NothingGiven, environ |-> NothingGiven, file |-> NoFile],
      [cli |-> [NothingGiven EXCEPT !.api_key = Some(<<"s", "k", "-", "c">>)],
       environ |-> NothingGiven, file |-> NoFile],
      [cli |-> [NothingGiven EXCEPT !.action_parser = Some(<<"c", "u", "s", "t", "o", "m">>)],
       environ |-> [NothingGiven EXCEPT !.api_key = Some(<<"s", "k", "-", "e">>)], file |-> NoFile],
      [cli |-> NothingGiven, environ |-> NothingGiven,
       file |-> [exists |-> TRUE,
                 raw |-> [NoKeys EXCEPT !.api_key = Present(Some(<<"s", "k", "-", "f">>)),
                                        !.action_parser = Present(Some(<<"c", "u", "s", "t", "o", "m">>)),
                                        !.action_parser_callable =
                                            Present(Some(<<"m", "y", "_", "p", "a", "r", "s", "e", "r", "s", ":", "p", "a", "r", "s", "e">>))]]] }

CliHost == [InvocationHost(ReturnsDict(ClickCommand), FALSE, << >>) EXCEPT !.service = "clicks"]

InitCli ==
    /\ entry = "main"
    /\ pc = "main"
    /\ \/ \E line \in {HelpLine, RejectedLine}, command \in {"see", "act", "status", ""} :
             arg = CliArgs(line, command, FALSE, CHOOSE g \in GivenSets : g.file = NoFile
                                                       /\ g.cli = NothingGiven)
       \/ \E command \in {"status", ""}, given \in GivenSets :
             arg = CliArgs(AcceptedLine, command, FALSE, given)
       \/ \E command \in {"see", "act"}, no_exec \in BOOLEAN, given \in GivenSets :
             arg = CliArgs(AcceptedLine, command, no_exec, given)
    /\ env = CliHost
    /\ ret = << >>
    /\ Idle
    /\ NoText

\* args = parser.parse_args(raw_argv): the help action prints the help and
\* raises SystemExit, JsonArgumentParser.error raises ValueError
ParseArgs ==
    /\ pc = "main"
    /\ entry = "main"
    /\ IF arg.line = HelpLine
       THEN /\ ops' = Append(ops, Event("print_help", << >>))
            /\ pc' = "exit"
            /\ ret' = [raised |-> Some("SystemExit"), code |-> None, payload |-> None]
       ELSE IF arg.line = RejectedLine
       THEN /\ pc' = "except"
            /\ ret' = <<"ValueError">>
            /\ UNCHANGED ops
       ELSE /\ pc' = "dispatch"
            /\ UNCHANGED <<ret, ops>>
    /\ UNCHANGED <<arg, env, responses, index, result_info,
                   response, action_strings, parsed_all, entry, _mss_instance>>

\* _dispatch without a command: the payload USAGE_ERROR
DispatchUsage ==
    /\ pc = "dispatch"
    /\ arg.command \notin {"see", "act", "status"}
    /\ ret' = fail("help", "USAGE_ERROR", "ArgumentError", NoData)
    /\ pc' = "emit"
    /\ UNCHANGED <<arg, env, responses, index, result_info, ops,
                   response, action_strings, parsed_all, entry, _mss_instance>>

\* json.loads in load_file_config raises on a config file that is not JSON
ConfigUnreadable ==
    /\ pc = "dispatch"
    /\ arg.command \in {"see", "act", "status"}
    /\ arg.file.exists
    /\ ret' = <<"JSONDecodeError">>
    /\ pc' = "except"
    /\ UNCHANGED <<arg, env, responses, index, result_info, ops,
                   response, action_strings, parsed_all, entry, _mss_instance>>

Effective(a) == resolve_runtime_config(a.cli, a.environ, a.file, load_file_config(a.file))

\* resolve_runtime_config(path=path): status takes nothing from its command line
EffectiveStatus(a) ==
    resolve_runtime_config(NothingGiven, a.environ, a.file, load_file_config(a.file))

\* _handle_status
HandleStatus ==
    /\ pc = "dispatch"
    /\ arg.command = "status"
    /\ ret' = ok("status",
                 IF \A f \in {"api_key", "model", "base_url"} :
                        IsSet(EffectiveStatus(arg).config[f])
                 THEN "STATUS_READY" ELSE "STATUS_INCOMPLETE",
                 [sources |-> EffectiveStatus(arg).sources])
    /\ pc' = "emit"
    /\ UNCHANGED <<arg, env, responses, index, result_info, ops,
                   response, action_strings, parsed_all, entry, _mss_instance>>

\* the checks of _handle_see_or_act before the automation
config_error(effective) ==
    IF ~IsSet(effective.api_key) THEN "CONFIG_MISSING"
    ELSE IF effective.action_parser = Some(<<"c", "u", "s", "t", "o", "m">>) /\ ~IsSet(effective.action_parser_callable)
    THEN "CONFIG_INVALID"
    ELSE ""

\* _handle_see_or_act, up to the call of auto_screen_operation
HandleSeeOrAct ==
    /\ pc = "dispatch"
    /\ arg.command \in {"see", "act"}
    /\ IF config_error(Effective(arg).config) # ""
       THEN /\ ret' = fail(arg.command, config_error(Effective(arg).config), "ConfigError",
                           [sources |-> Effective(arg).sources])
            /\ pc' = "emit"
            /\ UNCHANGED <<arg, entry>>
       ELSE /\ arg' = [arg EXCEPT
                         !.api_key = text_of(Effective(arg).config.api_key),
                         !.action_parser = text_of(Effective(arg).config.action_parser),
                         !.action_parser_callable =
                             text_of(Effective(arg).config.action_parser_callable),
                         !.execute_action = execute_action_of(arg.command, arg.no_exec)]
            /\ entry' = "auto_screen_operation"
            /\ pc' = "invoke"
            /\ UNCHANGED ret
    /\ UNCHANGED <<env, responses, index, result_info, ops,
                   response, action_strings, parsed_all, _mss_instance>>

\* the payload of _handle_see_or_act for the result of the automation
payload_of(a, result) ==
    IF ~result.success
    THEN fail(a.command, "ACTION_FAILED", "AutomationError", [result |-> result])
    ELSE ok(a.command, IF a.execute_action THEN "ACTION_DONE" ELSE "ANALYSIS_DONE",
            [analysis |-> [response |-> result.response, action_type |-> result.action_type],
             execution |-> [executed |-> a.execute_action,
                            action_triggered |-> result.action_triggered,
                            steps |-> IF result.execution_result.some
                                      THEN result.execution_result.v ELSE << >>],
             image_size |-> result.image_size])

\* auto_screen_operation has returned: the rest of _handle_see_or_act
Report ==
    /\ pc \in {"success", "failure"}
    /\ entry = "auto_screen_operation"
    /\ ret' = payload_of(arg, ret)
    /\ entry' = "main"
    /\ pc' = "emit"
    /\ UNCHANGED <<arg, env, responses, index, result_info, ops,
                   response, action_strings, parsed_all, _mss_instance>>

Emitted(payload) ==
    [cmd |-> 0, fn |-> "emit_json", nums |-> << >>, strs |-> << >>, payload |-> payload]

\* emit_json(payload, mode=json_mode); return 0 if payload.get("ok") else 2
Emit ==
    /\ pc = "emit"
    /\ ops' = Append(ops, Emitted(ret))
    /\ ret' = [raised |-> None, code |-> Some(exit_code(ret)), payload |-> Some(ret)]
    /\ pc' = "exit"
    /\ UNCHANGED <<arg, env, responses, index, result_info,
                   response, action_strings, parsed_all, entry, _mss_instance>>

\* except Exception: the payload UNHANDLED_ERROR emitted, return 2
EmitUnhandled ==
    /\ pc = "except"
    /\ LET payload == fail("unknown", "UNHANDLED_ERROR", ret[1], NoData)
       IN  /\ ops' = Append(ops, Emitted(payload))
           /\ ret' = [raised |-> None, code |-> Some(2), payload |-> Some(payload)]
    /\ pc' = "exit"
    /\ UNCHANGED <<arg, env, responses, index, result_info,
                   response, action_strings, parsed_all, entry, _mss_instance>>

NextCli ==
    \/ ParseArgs
    \/ DispatchUsage
    \/ ConfigUnreadable
    \/ HandleStatus
    \/ HandleSeeOrAct
    \/ ImportDependencies
    \/ ImportDependenciesFails
    \/ GetMssInstance
    \/ GetMssInstanceFails
    \/ Grab
    \/ GrabFails
    \/ CallModel
    \/ Post
    \/ PostFails
    \/ Execute
    \/ ReturnNotExecuted
    \/ Extract
    \/ ParseCustom
    \/ ParseNext
    \/ ReturnNotTriggered
    \/ Dispatch
    \/ Iterate
    \/ IterateFailing
    \/ Return
    \/ ReturnTriggered
    \/ Succeed
    \/ Fail
    \/ Report
    \/ Emit
    \/ EmitUnhandled

SpecCli == InitCli /\ [][NextCli]_vars
---------------------------------------------------------------------------
(* Properties of the dispatcher (under Spec).                              *)

\* the events made for the command at position k
OpsOf(k) == SelectSeq(ops, LAMBDA e : e.cmd = k)

OpsBefore(k) == SelectSeq(ops, LAMBDA e : e.cmd < k)

\* position of the first finished command of the list, 0 when it has none
FirstFinished ==
    IF \E k \in 1..Len(responses) : responses[k].action_type = <<"f", "i", "n", "i", "s", "h", "e", "d">>
    THEN LeastOr(0, {k \in 1..Len(responses) : responses[k].action_type = <<"f", "i", "n", "i", "s", "h", "e", "d">>})
    ELSE 0

Kinds == [k \in 1..Len(responses) |-> responses[k].action_type]

\* whether the command is one whose branch acts and logs a step, read off its
\* arguments
HasText(v) == v.t = "str" /\ \E i \in 1..Len(v.s) : v.s[i] \notin WhiteSpace

TakesEffect(cmd) ==
    LET t == cmd.action_type
        in == cmd.action_inputs
    IN  \/ t = <<"t", "y", "p", "e">> /\ Truthy(in.content)
        \/ t \in {<<"d", "r", "a", "g">>, <<"s", "e", "l", "e", "c", "t">>} /\ Truthy(in.start_box) /\ Truthy(in.end_box)
        \/ /\ t = <<"s", "c", "r", "o", "l", "l">>
           /\ in.direction.t = "str"
           /\ contains(lower(in.direction.s), <<"u", "p">>) \/ contains(lower(in.direction.s), <<"d", "o", "w", "n">>)
        \/ /\ t \in {<<"c", "l", "i", "c", "k">>, <<"l", "e", "f", "t", "_", "s", "i", "n", "g", "l", "e">>, <<"l", "e", "f", "t", "_", "d", "o", "u", "b", "l", "e">>, <<"r", "i", "g", "h", "t", "_", "s", "i", "n", "g", "l", "e">>, <<"h", "o", "v", "e", "r">>}
           /\ Truthy(in.start_box)
        \/ t = <<"h", "o", "t", "k", "e", "y">> /\ HasText(IF Truthy(in.content) THEN in.content ELSE in.key)
        \/ t \in {<<"w", "a", "i", "t">>, <<"f", "i", "n", "i", "s", "h", "e", "d">>}

\* C1 (as claimed): for every command list, on reaching the first finished
\* command the dispatcher appends the step finished and returns at once without
\* error: the log returned is the steps of the commands before it followed by
\* finished, and nothing is done for a later command; the list click, type,
\* finished, click (the click carrying a point, the type a content) runs three
\* commands and returns three steps.
C1_FinishedHalts ==
    (FirstFinished > 0 /\ index >= FirstFinished) =>
        /\ pc = "returned"
        /\ index = FirstFinished
        /\ ret = result_info
        /\ result_info = steps_of(OpsBefore(FirstFinished)) \o <<<<"f", "i", "n", "i", "s", "h", "e", "d">>>>
        /\ \A i \in 1..Len(ops) : ops[i].cmd <= FirstFinished
        /\ (/\ Kinds = <<<<"c", "l", "i", "c", "k">>, <<"t", "y", "p", "e">>, <<"f", "i", "n", "i", "s", "h", "e", "d">>, <<"c", "l", "i", "c", "k">>>>
            /\ TakesEffect(responses[1])
            /\ TakesEffect(responses[2])) => Len(ret) = 3

\* The same with the error left aside: whenever the loop gets to the finished
\* command with arguments the loop over action_inputs accepts, it halts there.
FinishedHaltsWhenReached ==
    (/\ FirstFinished > 0
     /\ index >= FirstFinished
     /\ ~normalize_raises(responses[FirstFinished].action_inputs)) =>
        /\ pc = "returned"
        /\ index = FirstFinished
        /\ ret = result_info
        /\ result_info = steps_of(OpsBefore(FirstFinished)) \o <<<<"f", "i", "n", "i", "s", "h", "e", "d">>>>
        /\ \A i \in 1..Len(ops) : ops[i].cmd <= FirstFinished
        /\ (/\ Kinds = <<<<"c", "l", "i", "c", "k">>, <<"t", "y", "p", "e">>, <<"f", "i", "n", "i", "s", "h", "e", "d">>, <<"c", "l", "i", "c", "k">>>>
            /\ TakesEffect(responses[1])
            /\ TakesEffect(responses[2])) => Len(ret) = 3

\* C2: the commands are executed one at a time in list order: the events of
\* command i all come before those of command j for i < j, iteration k works on
\* the k-th command of the list and makes exactly that command's events, and the
\* log holds the appended steps in that order.
C2_SequentialOrder ==
    /\ \A i, j \in 1..Len(ops) : i < j => ops[i].cmd <= ops[j].cmd
    /\ \A i \in 1..Len(ops) : ops[i].cmd \in 1..index
    /\ \A k \in 1..index :
          OpsOf(k) = Tagged(loop_body(responses[k], k - 1, arg, env).ops, k)
    /\ result_info = steps_of(ops)

\* three commands in a row, each of which injected input
C2_Witness ==
    /\ pc = "returned"
    /\ index = 3
    /\ \A k \in 1..3 : \E i \in 1..Len(ops) : ops[i].cmd = k /\ ops[i].fn \in InjectionFns

IsSettle(e) == e.fn = "time.sleep" /\ e.nums = <<SettleMs>>

\* C3: with k commands reached there are exactly k - 1 settle delays: none for
\* the first command and, for every later command whatever its kind, exactly
\* one, made before anything else is done for that command and after
\* everything done for the command before it.
C3_SettleDelays ==
    /\ Cardinality({i \in 1..Len(ops) : IsSettle(ops[i])})
          = IF index = 0 THEN 0 ELSE index - 1
    /\ \A i \in 1..Len(ops) : ops[i].cmd = 1 => ~IsSettle(ops[i])
    /\ \A k \in 2..index :
          /\ Cardinality({i \in 1..Len(ops) : ops[i].cmd = k /\ IsSettle(ops[i])}) = 1
          /\ IsSettle(OpsOf(k)[1])
    /\ \A i, j \in 1..Len(ops) : i < j => ops[i].cmd <= ops[j].cmd

\* three commands reached, the second of a kind the dispatcher ignores
C3_Witness ==
    /\ pc = "returned"
    /\ index = 3
    /\ responses[2].action_type = <<"f", "o", "o", "b", "a", "r">>
    /\ Cardinality({i \in 1..Len(ops) : IsSettle(ops[i])}) = 2

ClaimedKinds == {<<"c", "l", "i", "c", "k">>, <<"l", "e", "f", "t", "_", "d", "o", "u", "b", "l", "e">>, <<"r", "i", "g", "h", "t", "_", "s", "i", "n", "g", "l", "e">>, <<"h", "o", "v", "e", "r">>, <<"d", "r", "a", "g">>, <<"s", "e", "l", "e", "c", "t">>,
                 <<"s", "c", "r", "o", "l", "l">>, <<"t", "y", "p", "e">>, <<"h", "o", "t", "k", "e", "y">>, <<"w", "a", "i", "t">>, <<"f", "i", "n", "i", "s", "h", "e", "d">>}

\* C4 (as claimed): for a list whose kinds are all recognized and that has no
\* finished before its last position, the returned log is as long as the list.
C4_OneStepPerCommand ==
    (/\ pc = "returned"
     /\ \A k \in 1..Len(responses) : responses[k].action_type \in ClaimedKinds
     /\ FirstFinished \in {0, Len(responses)}) =>
        Len(ret) = Len(responses)

\* C4 (amended): the returned log holds at most one step per executed command,
\* appended as the last thing done for that command, and exactly one for each
\* executed command that takes effect; it is as long as the list only when
\* every command of the list takes effect.
C4_OneStepPerEffectiveCommand ==
    pc = "returned" =>
        /\ ret = result_info
        /\ Len(ret) = Cardinality({k \in 1..index : TakesEffect(responses[k])})
        /\ \A k \in 1..index :
              Len(steps_of(OpsOf(k))) = IF TakesEffect(responses[k]) THEN 1 ELSE 0
        /\ \A i \in 1..Len(ops) :
              ops[i].fn = "result_info.append" =>
                  (i = Len(ops) \/ ops[i + 1].cmd > ops[i].cmd)
        /\ Len(ret) <= Len(responses)

\* a list of three recognized commands, none finished, that returns two steps
C4_Witness ==
    /\ pc = "returned"
    /\ Len(responses) = 3
    /\ index = 3
    /\ \A k \in 1..3 : responses[k].action_type \in ClaimedKinds
    /\ FirstFinished = 0
    /\ Len(ret) = 2

KindsWithLeftSingle == ClaimedKinds \cup {<<"l", "e", "f", "t", "_", "s", "i", "n", "g", "l", "e">>}

\* C6 (as claimed, the dispatcher's half): a command of unrecognized kind
\* appends no step, injects no input and does not stop the loop.
C6_UnrecognizedKindIgnored ==
    \A k \in 1..index :
        responses[k].action_type \notin KindsWithLeftSingle =>
            /\ \A i \in 1..Len(ops) :
                  ops[i].cmd = k => ops[i].fn \notin InjectionFns \cup {"result_info.append"}
            /\ index = k => (pc = "loop" \/ (pc = "returned" /\ k = Len(responses)))

\* The same for the commands whose arguments the loop over action_inputs
\* accepts.
UnrecognizedKindIgnoredWhenAccepted ==
    \A k \in 1..index :
        (/\ responses[k].action_type \notin KindsWithLeftSingle
         /\ ~normalize_raises(responses[k].action_inputs)) =>
            /\ \A i \in 1..Len(ops) :
                  ops[i].cmd = k => ops[i].fn \notin InjectionFns \cup {"result_info.append"}
            /\ index = k => (pc = "loop" \/ (pc = "returned" /\ k = Len(responses)))

---------------------------------------------------------------------------
(* Properties of the normalizer (under SpecNormalizer).                    *)

\* r is round(num / den): a nearest integer, the even one on a tie
IsRound(r, num, den) ==
    /\ 2 * Abs(r * den - num) <= den
    /\ 2 * Abs(r * den - num) = den => r % 2 = 0

\* xy is the normalization of the point (px, py)
IsNormalized(xy, px, py, a) ==
    IF /\ Abs(px.n) <= a.scale_factor * px.d
       /\ Abs(py.n) <= a.scale_factor * py.d
    THEN /\ IsRound(xy[1], px.n * a.image_width, px.d * a.scale_factor)
         /\ IsRound(xy[2], py.n * a.image_height, py.d * a.scale_factor)
    ELSE /\ IsRound(xy[1], px.n, px.d)
         /\ IsRound(xy[2], py.n, py.d)

ScreenArgs(v) ==
    [value |-> v, image_width |-> 1920, image_height |-> 1080,
     scale_factor |-> COORDINATE_SCALE]

\* C9: _point_to_screen_xy returns (round(x*w/s), round(y*h/s)) when |x| <= s
\* and |y| <= s, the bounds included, and (round(x), round(y)) otherwise;
\* (500, 500) on 1920x1080 at scale 1000 gives (960, 540), (1200, 50) stays.
C9_PointNormalization ==
    pc = "point" =>
        /\ IsNormalized(ret, arg.value[1], arg.value[2], arg)
        /\ arg = ScreenArgs(<<Num(500), Num(500)>>) => ret = <<960, 540>>
        /\ arg = ScreenArgs(<<Num(1200), Num(50)>>) => ret = <<1200, 50>>

\* a point on the bound of the scale, scaled to the edge of the image
C9_Witness ==
    /\ pc = "point"
    /\ arg.value[1] = Num(arg.scale_factor)
    /\ arg.value[2] = Num(-arg.scale_factor)
    /\ arg.image_width # arg.scale_factor
    /\ ret = <<arg.image_width, -arg.image_height>>

\* the center of a box, as a rational
CenterX(b) == [n |-> b[1].n * b[3].d + b[3].n * b[1].d, d |-> 2 * b[1].d * b[3].d]
CenterY(b) == [n |-> b[2].n * b[4].d + b[4].n * b[2].d, d |-> 2 * b[2].d * b[4].d]

\* C10: _box_to_screen_xy of a 4-element box is the normalization of its
\* center, the magnitude test being made on the center and not on the corners;
\* a 2-element value is normalized as a point; (100, 100, 300, 300) reduces to
\* (200, 200).
C10_BoxCenter ==
    pc = "box" =>
        /\ Len(arg.value) = 4 => IsNormalized(ret, CenterX(arg.value), CenterY(arg.value), arg)
        /\ Len(arg.value) = 2 => IsNormalized(ret, arg.value[1], arg.value[2], arg)
        /\ arg = ScreenArgs(<<Num(100), Num(100), Num(300), Num(300)>>)
              => ret = _point_to_screen_xy(<<Num(200), Num(200)>>, 1920, 1080, COORDINATE_SCALE)

\* a box with a corner outside the scale whose center is inside it, scaled
C10_Witness ==
    /\ pc = "box"
    /\ Len(arg.value) = 4
    /\ ~AbsLe(arg.value[3], arg.scale_factor)
    /\ AbsLe(CenterX(arg.value), arg.scale_factor)
    /\ AbsLe(CenterY(arg.value), arg.scale_factor)
    /\ ret[1] # round(CenterX(arg.value).n, CenterX(arg.value).d)

---------------------------------------------------------------------------
(* Properties of the builtin parser (under SpecParser).                    *)

\* C5 (as claimed): every command _parse_builtin_action produces has its kind
\* in the set click, left_double, right_single, hover, drag, select, scroll,
\* type, hotkey, wait, finished, and a call of a name outside the set yields no
\* command.
C5_ClosedKindSet ==
    pc = "parsed" =>
        /\ ret.ok => ret.cmd.action_type \in ClaimedKinds
        /\ (arg.call /\ lower(arg.name) \notin ClaimedKinds) => ~ret.ok

\* C5 (amended): the closed set is the claimed one with left_single added: every
\* command produced has the lower-cased name of its expression as kind, that
\* kind is in the set, and an expression of a name outside the set yields no
\* command.
C5_ClosedKindSetWithLeftSingle ==
    pc = "parsed" =>
        /\ ret.ok => /\ ret.cmd.action_type \in KindsWithLeftSingle
                     /\ ret.cmd.action_type = lower(arg.name)
        /\ lower(arg.name) \notin KindsWithLeftSingle => ~ret.ok

\* a call of left_single that yields a command of kind left_single
C5_Witness ==
    /\ pc = "parsed"
    /\ arg.call
    /\ arg.name = <<"l", "e", "f", "t", "_", "s", "i", "n", "g", "l", "e">>
    /\ ret.ok
    /\ ret.cmd.action_type = <<"l", "e", "f", "t", "_", "s", "i", "n", "g", "l", "e">>

---------------------------------------------------------------------------
(* Properties of the extractor (under SpecExtractor).                      *)

IsOpen(low, i) == startswith_at(low, i, OpenMarker)
IsClose(low, i) == startswith_at(low, i, CloseMarker)

\* the position after the last end marker that lies wholly before i, 1 when
\* there is none
AfterLastClose(low, i) ==
    LET before == {c \in 1..i : IsClose(low, c) /\ c + Len(CloseMarker) <= i}
    IN  IF before = {} THEN 1
        ELSE (CHOOSE c \in before : \A d \in before : d <= c) + Len(CloseMarker)

\* the start markers that begin a delimited span: an end marker follows, and no
\* other start marker stands between the end marker before it and itself
SpanStarts(low) ==
    {o \in 1..Len(low) :
        /\ IsOpen(low, o)
        /\ \E c \in (o + Len(OpenMarker))..Len(low) : IsClose(low, c)
        /\ ~\E o2 \in AfterLastClose(low, o)..(o - 1) : IsOpen(low, o2)}

\* the inner body of the span that begins at o: up to the first end marker
SpanBody(s, low, o) ==
    SubSeq(s, o + Len(OpenMarker),
           LeastOr(0, {c \in (o + Len(OpenMarker))..Len(low) : IsClose(low, c)}) - 1)

RECURSIVE Ascending(_)
Ascending(S) ==
    IF S = {} THEN << >>
    ELSE <<LeastOr(0, S)>> \o Ascending(S \ {LeastOr(0, S)})

BodiesFrom(s, low, starts) == [k \in 1..Len(starts) |-> strip(SpanBody(s, low, starts[k]))]

TrimmedBodiesIn(s, low) == BodiesFrom(s, low, Ascending(SpanStarts(low)))

\* the trimmed inner bodies of the spans of s, in document order
TrimmedBodies(s) == TrimmedBodiesIn(s, lower(s))

\* a bare call: a name of action_funcs, then whitespace or nothing, then an
\* opening parenthesis with a closing one after it
HasBareCall(low) ==
    \E q \in 1..Len(low), i \in 1..Len(action_funcs) :
        /\ startswith_at(low, q, action_funcs[i])
        /\ \E r \in (q + Len(action_funcs[i]))..Len(low) :
              /\ low[r] = "("
              /\ \A k \in (q + Len(action_funcs[i]))..(r - 1) : low[k] \in WhiteSpace
              /\ \E e \in (r + 1)..Len(low) : low[e] = ")"

\* the expressions without the label the extractor puts before each
WithoutLabel(exprs) ==
    [k \in 1..Len(exprs) |->
        IF startswith(exprs[k], Label)
        THEN SubSeq(exprs[k], Len(Label) + 1, Len(exprs[k]))
        ELSE exprs[k]]

NotBlank(body) == body # << >>

Labelled(bodies) == [k \in 1..Len(bodies) |-> Label \o bodies[k]]

\* C7 (as claimed, the label put before each expression left aside): for a
\* response with at least one delimited span the extractor returns exactly the
\* trimmed inner bodies of the spans, one expression per span, in document
\* order.
C7_DelimitedSpans ==
    (pc = "split" /\ TrimmedBodies(response) # << >>) =>
        WithoutLabel(action_strings) = TrimmedBodies(response)

SpansReturned(actions, bodies) ==
    bodies # << >> => actions = Labelled(SelectSeq(bodies, NotBlank))

\* C7 (amended): for a response with at least one delimited span the extractor
\* returns, in document order, one expression for each span whose trimmed inner
\* body is not empty, the label "Action: " followed by that body, and nothing
\* else: spans with a blank body give no expression, and bare calls of the
\* response give none either (the fallback scan is not run).
C7_DelimitedNonBlankSpans ==
    pc = "split" => SpansReturned(action_strings, TrimmedBodies(response))

\* three spans, the second blank, and a bare call outside them: two expressions
C7_Witness ==
    /\ pc = "split"
    /\ Len(TrimmedBodies(response)) = 3
    /\ TrimmedBodies(response)[2] = << >>
    /\ contains(response, <<"A", "c", "t", "i", "o", "n", ":", " ", "t", "y", "p", "e", " ", "(", "'", "h", "i", "'", ")">>)
    /\ action_strings = <<Label \o <<"c", "l", "i", "c", "k", "(", ")">>, Label \o <<"w", "a", "i", "t", "(", ")">>>>

\* C8 (as claimed, the label left aside): the extractor returns a non-empty list
\* for every response, and when neither the delimited spans nor the bare calls
\* give an expression the list is the whole trimmed response alone.
C8_NeverEmpty ==
    pc = "split" =>
        /\ action_strings # << >>
        /\ (/\ SelectSeq(TrimmedBodies(response), NotBlank) = << >>
            /\ ~HasBareCall(lower(response)))
              => WithoutLabel(action_strings) = <<strip(response)>>

LastResortTaken(actions, s, bodies, bare) ==
    /\ bodies = << >> => actions # << >>
    /\ (bodies = << >> /\ ~bare) => actions = <<Label \o strip(s)>>
    /\ actions = << >> <=> (bodies # << >> /\ SelectSeq(bodies, NotBlank) = << >>)

\* C8 (amended): for a response without a delimited span the extractor returns
\* a non-empty list, and when in addition the response has no bare call the
\* list is one expression, the label "Action: " followed by the whole trimmed
\* response; the list is empty exactly for the responses that have delimited
\* spans all of which are blank.
C8_NeverEmptyWithoutSpans ==
    pc = "split" =>
        LastResortTaken(action_strings, response, TrimmedBodies(response),
                        HasBareCall(lower(response)))

\* the last resort taken on a response that had something to trim
C8_Witness ==
    /\ pc = "split"
    /\ TrimmedBodies(response) = << >>
    /\ ~HasBareCall(lower(response))
    /\ strip(response) # response
    /\ strip(response) # << >>
    /\ action_strings = <<Label \o strip(response)>>

---------------------------------------------------------------------------
(* Properties of parse_and_execute_action (under SpecPipeline).            *)

CalledName(expr) == lower(SubSeq(expr, 1, ident_length(expr)))

IsRecognized(expr) == CalledName(expr) \in KindsWithLeftSingle

\* a name of action_funcs ends the name the expression calls
EndsWithKnownName(expr) ==
    \E i \in 1..Len(action_funcs) : endswith(CalledName(expr), action_funcs[i])

\* the commands of the expressions, each parsed on its own
RECURSIVE CommandsOf(_)
CommandsOf(exprs) ==
    IF exprs = << >> THEN << >>
    ELSE parsed_append(<< >>, _parse_builtin_action(Head(exprs))) \o CommandsOf(Tail(exprs))

\* The builtin half of C6, for the responses whose expressions are delimited
\* and the bare ones in which no unrecognized name ends in a recognized one
\* (the scan for bare calls finds type( inside retype(...)): the expressions of
\* unrecognized kind give no command, no step and no error, and the other
\* expressions are parsed as they are on their own and their commands executed
\* in the order written.
UnrecognizedExpressionDropped ==
    (/\ pc \in {"loop", "returned", "raised", "done"}
     /\ \/ arg.delimited
        \/ \A k \in 1..Len(arg.exprs) :
              IsRecognized(arg.exprs[k]) \/ ~EndsWithKnownName(arg.exprs[k])) =>
        /\ parsed_all = CommandsOf(SelectSeq(arg.exprs, IsRecognized))
        /\ parsed_all # << >> =>
              /\ responses = parsed_all
              /\ \A k \in 1..index :
                    OpsOf(k) = Tagged(loop_body(parsed_all[k], k - 1, arg, env).ops, k)
              /\ \A i \in 1..Len(ops) : ops[i].cmd \in 1..index
              /\ result_info = steps_of(ops)
              /\ pc = "raised" => loop_body(parsed_all[index], index - 1, arg, env).raised
              /\ pc = "done" => ret.result = result_info
        /\ parsed_all = << >> => (pc = "done" /\ ret = NotTriggered /\ ops = << >>)


---------------------------------------------------------------------------
(* The parsers outside the engine.                                         *)

IsCustom == backend_pc(parser_name(arg.action_parser)) = "custom"
IsUiTars == backend_pc(parser_name(arg.action_parser)) = "ui_tars"

FirstColon(path) == LeastOr(0, {i \in 1..Len(path) : path[i] = ":"})

ModuleOf(path) == SubSeq(path, 1, FirstColon(path) - 1)
SymbolOf(path) == SubSeq(path, FirstColon(path) + 1, Len(path))

\* the reference has no ":", or its module cannot be imported, or its symbol
\* is missing from the module or is not callable
BadReference(path) ==
    \/ FirstColon(path) = 0
    \/ ModuleOf(path) \notin InstalledModules
    \/ SymbolOf(path) \notin CallableAttributes

\* C11: with the custom parser chosen and a reference without ":", with a
\* module that cannot be imported or with a symbol that is missing or not
\* callable, parse_and_execute_action ends in a raised error, and nothing was
\* parsed, no call of any kind was made (no injection, no delay, no call of a
\* parser) and no command was handed to the dispatcher.
C11_BadReferenceRaises ==
    (IsCustom /\ BadReference(arg.action_parser_callable)) =>
        /\ pc \in {"call", "custom", "raised"}
        /\ pc = "raised" => ret \in {<<"ValueError">>, <<"ModuleNotFoundError">>,
                                     <<"AttributeError">>}
        /\ ops = << >>
        /\ parsed_all = << >>
        /\ responses = << >>
        /\ result_info = << >>

\* a reference to a symbol that is there and is not callable has raised
C11_Witness ==
    /\ IsCustom
    /\ arg.action_parser_callable = <<"m", "y", "_", "p", "a", "r", "s", "e", "r", "s", ":", "T", "A", "B", "L", "E">>
    /\ action_strings # << >>
    /\ pc = "raised"
    /\ ret = <<"ValueError">>

\* the commands among the items of a list, in the order of the list
CommandsAmong(items) ==
    LET dicts == SelectSeq(items, LAMBDA item : item.is_dict)
    IN  [i \in 1..Len(dicts) |-> dicts[i].cmd]

\* the batch the return value of the registered parser stands for
BatchOf(parsed) ==
    IF parsed.kind = "dict" THEN <<parsed.cmd>>
    ELSE IF parsed.kind = "list" THEN CommandsAmong(parsed.items)
    ELSE << >>

\* C12: with the custom parser chosen and resolved, the function is called
\* once with the response, the image width, the image height and the scale
\* factor in that order; a command returned is a batch of that command, a list
\* returned is the batch of its commands in the order of the list, and
\* anything else is the empty batch, for which no action is triggered and no
\* call but that of the parser is made; the batch is what the dispatcher gets.
C12_CustomBatch ==
    (/\ IsCustom
     /\ ~BadReference(arg.action_parser_callable)
     /\ Returned(env.custom_result.kind)
     /\ pc \notin {"call", "custom"}) =>
        /\ ops # << >>
        /\ ops[1].fn = "parser"
        /\ ops[1].strs = <<response>>
        /\ ops[1].nums = <<arg.image_width, arg.image_height, arg.scale_factor>>
        /\ \A i \in 2..Len(ops) : ops[i].fn # "parser"
        /\ parsed_all = BatchOf(env.custom_result)
        /\ pc \in {"loop", "returned", "raised", "done"} =>
              IF parsed_all = << >>
              THEN pc = "done" /\ ret = NotTriggered /\ Len(ops) = 1
              ELSE responses = parsed_all

\* a list of three items, two of them commands, was executed
C12_Witness ==
    /\ IsCustom
    /\ env.custom_result.kind = "list"
    /\ Len(env.custom_result.items) = 3
    /\ Len(parsed_all) = 2
    /\ pc = "done"
    /\ ret.triggered
    /\ Len(ret.result) = 2

---------------------------------------------------------------------------
(* The arguments the builtin parser requires.                              *)

\* the argument called name is written in args at p: the name is not the end
\* of a longer one, and a quoted value follows the "="
ArgumentAt(args, name, p) ==
    /\ p = 1 \/ args[p - 1] \notin IdentChar
    /\ \E quote \in {"'", "\""} : quoted_at(args, name, quote, p).ok

HasArgument(args, name) == \E p \in 1..Len(args) : ArgumentAt(args, name, p)

\* an argument called name is written in args with a value of two numbers
ParsesToPoint(args, name) ==
    \E p \in 1..Len(args), quote \in {"'", "\""} :
        /\ ArgumentAt(args, name, p)
        /\ point_value(quoted_at(args, name, quote, p)).ok

Kind == lower(arg.name)

\* the call is one the claim has dropped for its arguments
LacksRequired ==
    \/ /\ Kind \in {<<"c", "l", "i", "c", "k">>, <<"l", "e", "f", "t", "_", "d", "o", "u", "b", "l", "e">>, <<"r", "i", "g", "h", "t", "_", "s", "i", "n", "g", "l", "e">>, <<"h", "o", "v", "e", "r">>}
       /\ ~ParsesToPoint(arg.args, <<"p", "o", "i", "n", "t">>)
       /\ ~ParsesToPoint(arg.args, <<"s", "t", "a", "r", "t", "_", "p", "o", "i", "n", "t">>)
    \/ /\ Kind \in {<<"d", "r", "a", "g">>, <<"s", "e", "l", "e", "c", "t">>}
       /\ ~(ParsesToPoint(arg.args, <<"s", "t", "a", "r", "t", "_", "p", "o", "i", "n", "t">>) /\ ParsesToPoint(arg.args, <<"e", "n", "d", "_", "p", "o", "i", "n", "t">>))
    \/ /\ Kind = <<"t", "y", "p", "e">>
       /\ ~HasArgument(arg.args, <<"c", "o", "n", "t", "e", "n", "t">>)

\* C13: the builtin parser gives no command for a call of click, left_double,
\* right_single or hover in which neither the argument point nor the argument
\* start_point has a value of two numbers, for a call of drag or select in
\* which start_point and end_point do not both have one, and for a call of
\* type without the argument content.
C13_RequiredArguments ==
    (pc = "parsed" /\ arg.call /\ LacksRequired) => ~ret.ok

\* every name of an argument searched for is written in args as a whole name
\* only, never as the end of a longer one
WholeNames(args) ==
    \A name \in {<<"p", "o", "i", "n", "t">>, <<"s", "t", "a", "r", "t", "_", "p", "o", "i", "n", "t">>, <<"e", "n", "d", "_", "p", "o", "i", "n", "t">>, <<"c", "o", "n", "t", "e", "n", "t">>}, p \in 2..Len(args) :
        startswith_at(args, p, name) => args[p - 1] \notin IdentChar

\* What holds of C13: when the names of the arguments are written as whole
\* names only, the calls that lack a required argument give no command, and no
\* call of the sweep makes the parser raise.
RequiredArgumentsOfWholeNames ==
    (pc = "parsed" /\ arg.call /\ LacksRequired /\ WholeNames(arg.args)) => ~ret.ok

\* C17: an expression that is not a call name(...) gives no command.
C17_NonCallDropped ==
    (pc = "parsed" /\ ~arg.call) => ~ret.ok

\* What holds of C17: an expression that is a bare name gives a command only
\* when the name is wait, finished or scroll, in any case of the letters, and
\* the command then has no argument but the direction down of scroll.
NonCallOnlyArgless ==
    (pc = "parsed" /\ ~arg.call /\ ret.ok) =>
        /\ Kind \in {<<"w", "a", "i", "t">>, <<"f", "i", "n", "i", "s", "h", "e", "d">>, <<"s", "c", "r", "o", "l", "l">>}
        /\ ret.cmd.action_type = Kind
        /\ ret.cmd.action_inputs =
              IF Kind = <<"s", "c", "r", "o", "l", "l">> THEN WithInputs(<< <<"direction", Str(<<"d", "o", "w", "n">>)>> >>)
              ELSE NoInputs

---------------------------------------------------------------------------
(* The parser of ui_tars.                                                  *)

\* the commands the first n expressions are worth with the parser of ui_tars,
\* an expression it raises a value error on being worth none
RECURSIVE KeptOf(_, _)
KeptOf(external, n) ==
    IF n = 0 THEN << >>
    ELSE KeptOf(external, n - 1) \o
         (IF external[n].kind = "ValueError" THEN << >> ELSE BatchOf(external[n]))

\* the parser raises on one of the first n expressions an error of another class
Escapes(external, n) ==
    \E k \in 1..n : external[k].kind \notin {"dict", "list", "none", "other", "ValueError"}

ParserCalls == SelectSeq(ops, LAMBDA o : o.fn = "parse_action_to_structure_output")

\* C14: with the parser of ui_tars chosen and installed, and no error other
\* than a value error raised by it, every expression is handed to the parser
\* in the order of the response, the one it raises a value error on gives no
\* command and stops nothing, the commands of the others are kept in the order
\* of their expressions, and that list is what the dispatcher executes; each
\* expression is handed over with the label "Action: " in front, once.
C14_ValueErrorSkipped ==
    (/\ IsUiTars
     /\ env.ui_tars_installed
     /\ pc \notin {"call", "ui_tars"}
     /\ ~Escapes(env.external, Len(action_strings))) =>
        /\ pc # "raised" \/ responses # << >>
        /\ pc = "ui_tars_parse" =>
              /\ Len(ParserCalls) = index
              /\ parsed_all = KeptOf(env.external, index)
        /\ pc # "ui_tars_parse" =>
              /\ Len(ParserCalls) = Len(action_strings)
              /\ parsed_all = KeptOf(env.external, Len(action_strings))
              /\ IF parsed_all = << >>
                 THEN pc = "done" /\ ret = NotTriggered
                 ELSE responses = parsed_all
        /\ \A i \in 1..Len(ParserCalls) :
              ParserCalls[i].strs = <<Label \o WaitExpression>>

\* of three expressions the second made the parser raise a value error, and
\* the commands of the first and the third were executed
C14_Witness ==
    /\ IsUiTars
    /\ Len(action_strings) = 3
    /\ env.external[1].kind = "dict"
    /\ env.external[2].kind = "ValueError"
    /\ env.external[3].kind = "list"
    /\ parsed_all = <<ClickCommand, TypeCommand, WaitCommand>>
    /\ pc = "done"
    /\ ret.triggered
    /\ Len(ret.result) = 3

---------------------------------------------------------------------------
(* One invocation.                                                         *)

IsBuiltin == backend_pc(parser_name(arg.action_parser)) = "parse"

\* the calls made for the commands of the batch: those of the dispatcher
DispatcherOps == SelectSeq(ops, LAMBDA e : e.cmd >= 1)

Injections == SelectSeq(ops, LAMBDA e : e.fn \in InjectionFns)

\* the delays but the one auto_screen_operation makes before the call
Delays ==
    SelectSeq(ops, LAMBDA e : e.fn = "time.sleep" /\ ~(e.cmd = 0 /\ e.nums = <<ExecutionDelayMs>>))

\* C15: when the parser has gone through the response and given no command,
\* parse_and_execute_action returns (False, [], None): it does not raise, and
\* makes no call of pyautogui or pyperclip and no delay; the invocation ends
\* as a success with the action not triggered and the empty log. The action is
\* reported as triggered exactly when the list of parsed commands is not empty.
C15_NothingParsed ==
    /\ (parsed_all = << >> /\ pc \in {"parsed", "done", "success"} /\ arg.execute_action) =>
          /\ Injections = << >>
          /\ Delays = << >>
          /\ DispatcherOps = << >>
          /\ responses = << >>
    /\ (IsBuiltin /\ action_strings # << >> /\ CommandsOf(action_strings) = << >>) =>
          pc \notin {"loop", "returned", "raised", "failure"}
    /\ pc = "done" =>
          /\ ret.triggered <=> parsed_all # << >>
          /\ parsed_all = << >> => ret.result = << >> /\ ret.first_type = << >>
    /\ (pc = "success" /\ arg.execute_action) =>
          /\ ret.success
          /\ ret.action_triggered <=> parsed_all # << >>
          /\ parsed_all = << >> =>
                /\ ret.execution_result = Some(<< >>)
                /\ ret.action_type = None
                /\ ret.error = None

\* a response with expressions, none of which gave a command, ended as a success
C15_Witness ==
    /\ pc = "success"
    /\ arg.execute_action
    /\ IsBuiltin
    /\ Len(action_strings) >= 2
    /\ parsed_all = << >>
    /\ ret.success
    /\ ~ret.action_triggered

Raises == {j \in 1..Len(ops) : ops[j].fn = "raise"}

\* the events of the body of command i up to and with its n-th
BodyPrefix(i, n) ==
    Tagged(SubSeq(loop_body(responses[i], i - 1, arg, env).ops, 1, n), i)

\* C16: once a call of pyautogui or pyperclip has raised while command i was
\* dispatched, the loop is left with the error: the call that raised is the
\* last event of the invocation (no retry, nothing done for a later command),
\* what was done for command i is the body of the loop up to that call, no
\* log is returned, and the invocation ends as a failure without an execution
\* result and with the action not triggered.
C16_InjectionFailureFatal ==
    \A j \in Raises :
        /\ j = Len(ops)
        /\ Raises = {j}
        /\ pc \in {"raised", "failure"}
        /\ index = ops[j].cmd
        /\ \A e \in 1..Len(ops) : ops[e].cmd <= ops[j].cmd
        /\ Len(OpsOf(ops[j].cmd)) >= 2
        /\ OpsOf(ops[j].cmd)[Len(OpsOf(ops[j].cmd)) - 1].fn \in InjectionFns
        /\ SubSeq(OpsOf(ops[j].cmd), 1, Len(OpsOf(ops[j].cmd)) - 1)
              = BodyPrefix(ops[j].cmd, Len(OpsOf(ops[j].cmd)) - 1)
        /\ pc = "raised" => ret = <<InjectionError>>
        /\ pc = "failure" =>
              /\ ~ret.success
              /\ ret.execution_result = None
              /\ ~ret.action_triggered
              /\ ret.action_type = None
              /\ ret.error = Some(InjectionError)

\* the second of three commands failed after the first had made its step
C16_Witness ==
    /\ pc = "failure"
    /\ Raises # {}
    /\ Len(responses) = 3
    /\ index = 2
    /\ result_info # << >>
    /\ ret.execution_result = None

\* the parser has gone through the whole response
ParsedThrough ==
    /\ IsBuiltin => parsed_all = CommandsOf(action_strings)
    /\ IsUiTars => Len(ParserCalls) = Len(action_strings)
    /\ IsCustom => Len(SelectSeq(ops, LAMBDA e : e.fn = "parser")) = 1

\* nothing done for a command, and no call of pyautogui or pyperclip, before
\* the list is with the dispatcher, and by then the parser is through
ParsedBeforeDispatch ==
    /\ responses = << >> => (DispatcherOps = << >> /\ Injections = << >> /\ Delays = << >>)
    /\ responses # << >> => (responses = parsed_all /\ ParsedThrough)
    /\ \A i, j \in 1..Len(ops) : (i < j /\ ops[j].cmd = 0) => ops[i].cmd = 0
    /\ \A i \in 1..Len(ops) : ops[i].cmd = 0 => ops[i].fn \notin InjectionFns

\* with the list with the dispatcher nothing is extracted or parsed any more
NothingParsedAfterDispatch ==
    responses # << >> =>
        /\ action_strings' = action_strings
        /\ parsed_all' = parsed_all
        /\ responses' = responses
        /\ SelectSeq(ops', LAMBDA e : e.cmd = 0) = SelectSeq(ops, LAMBDA e : e.cmd = 0)

\* C18: in an invocation the extraction and the parsing of every expression
\* are over before the first call of pyautogui or pyperclip and the first
\* delay of the dispatcher, the extractor and the parsers make no such call,
\* and nothing is extracted or parsed once the commands are with the
\* dispatcher.
C18_ForwardFlow == [](ParsedBeforeDispatch) /\ [][NothingParsedAfterDispatch]_vars

\* two expressions were parsed, then dispatched, and the invocation succeeded
C18_Witness ==
    /\ pc = "success"
    /\ IsBuiltin
    /\ Len(action_strings) >= 2
    /\ Len(responses) >= 2
    /\ Len(Injections) >= 2

---------------------------------------------------------------------------
(* The commands type and scroll.                                           *)

\* what was done for command k after its settle delay: each call and append
\* with its texts, the delays left out
Shape(e) == <<e.fn, e.strs>>

Done(k) ==
    LET acts == SelectSeq(OpsOf(k), LAMBDA e : e.fn # "time.sleep")
    IN  [i \in 1..Len(acts) |-> Shape(acts[i])]

ContentOf(k) == responses[k].action_inputs.content

EndsWithNewline(c) ==
    \/ Len(c) >= 1 /\ c[Len(c)] = "\n"
    \/ Len(c) >= 2 /\ c[Len(c) - 1] = "\\" /\ c[Len(c)] = "n"

First50(c) == SubSeq(c, 1, IF Len(c) < 50 THEN Len(c) ELSE 50)

PasteKeys == IF env.sysname = "Darwin" THEN <<<<"c", "o", "m", "m", "a", "n", "d">>, <<"v">>>> ELSE <<<<"c", "t", "r", "l">>, <<"v">>>>

\* the copy, the paste, Enter for a content that ends with a newline, the step
TypeDone(c) ==
    << <<"pyperclip.copy", <<c>>>>, <<"pyautogui.hotkey", PasteKeys>> >>
    \o (IF EndsWithNewline(c) THEN << <<"pyautogui.press", <<<<"e", "n", "t", "e", "r">>>>>> >> ELSE << >>)
    \o << <<"result_info.append", <<<<"t", "y", "p", "e", ":">> \o First50(c)>>>> >>

\* C19: for every type command with a content that was reached, the
\* dispatcher has copied the content to the clipboard, pressed the paste
\* shortcut (command+v on Darwin, ctrl+v elsewhere), pressed Enter if and only
\* if the content ends with a newline, literal or escaped, and appended the
\* step type: with the first 50 characters of the content, in that order.
C19_TypeSequence ==
    \A k \in 1..index :
        (responses[k].action_type = <<"t", "y", "p", "e">> /\ Truthy(ContentOf(k))) =>
            Done(k) = TypeDone(ContentOf(k).s)

\* What holds of C19: the sequence is that of the claim for every content that
\* does not hold the text <point>, and a type command without content, or
\* with the empty content, does nothing.
TypeSequenceWithoutPointText ==
    \A k \in 1..index :
        responses[k].action_type = <<"t", "y", "p", "e">> =>
            IF ~Truthy(ContentOf(k)) THEN Done(k) = << >>
            ELSE ~contains(ContentOf(k).s, <<"<", "p", "o", "i", "n", "t", ">">>) => Done(k) = TypeDone(ContentOf(k).s)

\* a content of more than 50 characters that ends with a newline was typed
TypeSequenceWitness ==
    /\ pc = "returned"
    /\ \E k \in 1..Len(responses) :
          /\ responses[k].action_type = <<"t", "y", "p", "e">>
          /\ Len(ContentOf(k).s) > 50
          /\ Len(Done(k)) = 4

DirectionOf(k) ==
    IF responses[k].action_inputs.direction.t = "str"
    THEN lower(responses[k].action_inputs.direction.s) ELSE << >>

\* max(1, floor(25% of the screen height) div 15)
ScrollCount ==
    IF (env.screen_height \div 4) \div 15 >= 1 THEN (env.screen_height \div 4) \div 15 ELSE 1

ScrollsOf(k) == SelectSeq(OpsOf(k), LAMBDA e : e.fn = "pyautogui.scroll")

\* C20: for every scroll command reached, with the count max(1, floor(25% of
\* the screen height) div 15): a direction that contains up, in any case of
\* the letters, gives one scroll by +count and the step scroll:up; otherwise
\* one that contains down gives one scroll by -count and the step
\* scroll:down; any other direction gives no scroll and no step; and a
\* command without a point scrolls without a position.
C20_ScrollCount ==
    \A k \in 1..index :
        responses[k].action_type = <<"s", "c", "r", "o", "l", "l">> =>
            /\ ScrollCount >= 1
            /\ IF contains(DirectionOf(k), <<"u", "p">>)
               THEN /\ Done(k) = << <<"pyautogui.scroll", << >>>>,
                                    <<"result_info.append", <<<<"s", "c", "r", "o", "l", "l", ":", "u", "p">>>>>> >>
                    /\ ScrollsOf(k)[1].nums[1] = ScrollCount
               ELSE IF contains(DirectionOf(k), <<"d", "o", "w", "n">>)
               THEN /\ Done(k) = << <<"pyautogui.scroll", << >>>>,
                                    <<"result_info.append", <<<<"s", "c", "r", "o", "l", "l", ":", "d", "o", "w", "n">>>>>> >>
                    /\ ScrollsOf(k)[1].nums[1] = -ScrollCount
               ELSE Done(k) = << >>
            /\ \A i \in 1..Len(ScrollsOf(k)) :
                  Len(ScrollsOf(k)[i].nums) =
                     IF Truthy(responses[k].action_inputs.start_box) THEN 3 ELSE 1

\* the scroll command has a text argument that holds the text <point>
HasPointText(k) ==
    \E key \in InputKeys :
        /\ responses[k].action_inputs[key].t = "str"
        /\ contains(responses[k].action_inputs[key].s, <<"<", "p", "o", "i", "n", "t", ">">>)

\* What holds of C20: the same for every scroll command none of whose text
\* arguments holds the text <point>.
ScrollCountWithoutPointText ==
    \A k \in 1..index :
        (responses[k].action_type = <<"s", "c", "r", "o", "l", "l">> /\ ~HasPointText(k)) =>
            /\ ScrollCount >= 1
            /\ IF contains(DirectionOf(k), <<"u", "p">>)
               THEN /\ Done(k) = << <<"pyautogui.scroll", << >>>>,
                                    <<"result_info.append", <<<<"s", "c", "r", "o", "l", "l", ":", "u", "p">>>>>> >>
                    /\ ScrollsOf(k)[1].nums[1] = ScrollCount
               ELSE IF contains(DirectionOf(k), <<"d", "o", "w", "n">>)
               THEN /\ Done(k) = << <<"pyautogui.scroll", << >>>>,
                                    <<"result_info.append", <<<<"s", "c", "r", "o", "l", "l", ":", "d", "o", "w", "n">>>>>> >>
                    /\ ScrollsOf(k)[1].nums[1] = -ScrollCount
               ELSE Done(k) = << >>
            /\ \A i \in 1..Len(ScrollsOf(k)) :
                  Len(ScrollsOf(k)[i].nums) =
                     IF Truthy(responses[k].action_inputs.start_box) THEN 3 ELSE 1

---------------------------------------------------------------------------
(* The command hotkey.                                                     *)

\* the key string of command k: the argument content when it has one, else
\* the argument key, in lowercase
KeyStringOf(k) ==
    LET in == responses[k].action_inputs
    IN  IF Truthy(in.content) THEN lower(in.content.s)
        ELSE IF in.key.t = "str" THEN lower(in.key.s) ELSE << >>

IsToken(s, a, b) ==
    /\ a <= b
    /\ \A i \in a..b : s[i] \notin WhiteSpace
    /\ a = 1 \/ s[a - 1] \in WhiteSpace
    /\ b = Len(s) \/ s[b + 1] \in WhiteSpace

TokenStarts(s) == {a \in 1..Len(s) : \E b \in a..Len(s) : IsToken(s, a, b)}

\* the runs of s without whitespace, in the order of s
Tokens(s) ==
    SubSeq([n \in 1..Cardinality(TokenStarts(s)) |->
               LET a == CHOOSE x \in TokenStarts(s) :
                            Cardinality({y \in TokenStarts(s) : y < x}) = n - 1
               IN  SubSeq(s, a, CHOOSE b \in a..Len(s) : IsToken(s, a, b))],
           1, Cardinality(TokenStarts(s)))

\* the tokens of the key string, each put through the alias table
MappedTokens(k) ==
    SubSeq([n \in 1..Len(Tokens(KeyStringOf(k))) |-> map_key(Tokens(KeyStringOf(k))[n])],
           1, Len(Tokens(KeyStringOf(k))))

PressesOf(k) == SelectSeq(OpsOf(k), LAMBDA e : e.fn = "pyautogui.hotkey")

\* no token of the alias table is changed by mapping it once more
TableCanonical ==
    \A i \in 1..Len(key_map) : map_key(map_key(key_map[i][1])) = map_key(key_map[i][1])

\* one keypress of the mapped tokens and its step, or nothing for a key string
\* without a token
HotkeyDone(k) ==
    IF Tokens(KeyStringOf(k)) = << >>
    THEN Done(k) = << >>
    ELSE /\ Done(k) = << <<"pyautogui.hotkey", MappedTokens(k)>>,
                         <<"result_info.append",
                           <<<<"h", "o", "t", "k", "e", "y", ":">> \o join(<<"+">>, MappedTokens(k))>>>> >>
         /\ Len(PressesOf(k)) = 1

\* C21: for every hotkey command reached, the key string (the argument
\* content, else key, in lowercase) is split on whitespace, each token is put
\* through the alias table (a token the table lacks is kept), and there is
\* exactly one keypress, of the mapped tokens in their order, followed by the
\* step hotkey: with the mapped tokens joined by +; a key string without a
\* token gives no keypress and no step; and mapping a mapped token changes
\* nothing.
C21_HotkeyTokens ==
    /\ TableCanonical
    /\ \A k \in 1..index : responses[k].action_type = <<"h", "o", "t", "k", "e", "y">> => HotkeyDone(k)

\* What holds of C21: the same for every hotkey command none of whose text
\* arguments holds the text <point>.
HotkeyTokensWithoutPointText ==
    /\ TableCanonical
    /\ \A k \in 1..index :
          (responses[k].action_type = <<"h", "o", "t", "k", "e", "y">> /\ ~HasPointText(k)) => HotkeyDone(k)

\* a key string of three tokens with whitespace of several kinds was pressed
HotkeyTokensWitness ==
    /\ pc = "returned"
    /\ \E k \in 1..Len(responses) :
          /\ responses[k].action_type = <<"h", "o", "t", "k", "e", "y">>
          /\ Len(PressesOf(k)) = 1
          /\ PressesOf(k)[1].strs = <<<<"c", "o", "m", "m", "a", "n", "d">>, <<"s", "h", "i", "f", "t">>, <<"e", "s", "c", "a", "p", "e">>>>

---------------------------------------------------------------------------
(* The handle of the screen-capture device.                                *)

\* the constructor calls that returned a handle
Constructed(events) == SelectSeq(Constructions(events), LAMBDA e : e.nums # << >>)

\* C22 as stated: the constructor runs at most once, at the first capture, and
\* every capture that grabs the screen does it with the one handle made.
C22_OneConstruction ==
    /\ Len(Constructions(ops)) <= 1
    /\ \A i \in 1..Len(Grabs(ops)) : Grabs(ops)[i].nums[1] = Grabs(ops)[1].nums[1]

HandleKept == _mss_instance # None => _mss_instance' = _mss_instance

NoConstructionOnceSet == _mss_instance # None => Constructions(ops') = Constructions(ops)

\* C22: the constructor returns a handle at most once; once the global
\* holds a handle it is never replaced or reset and the constructor is not
\* called again; every capture that grabs the screen does it with that
\* handle; and the constructor is called again by a later capture only after
\* every call before it raised.
C22_HandleConstructedOnce ==
    /\ [](/\ Len(Constructed(ops)) <= 1
          /\ _mss_instance = None <=> Constructed(ops) = << >>
          /\ \A i \in 1..Len(Grabs(ops)) : Some(Grabs(ops)[i].nums[1]) = _mss_instance)
    /\ [][HandleKept /\ NoConstructionOnceSet]_vars

\* the handle made by the second capture, after the constructor raised in
\* the first, and used by the third and the fourth
C22_Witness ==
    /\ index = MaxCaptures
    /\ pc = "captured"
    /\ Len(Constructions(ops)) = 2
    /\ Len(Constructed(ops)) = 1
    /\ Len(Grabs(ops)) = 3

---------------------------------------------------------------------------
(* The stages of one invocation.                                           *)

\* the stage an event belongs to: 0 the import of the dependencies, 1 the
\* screen capture, 2 the model call, 3 parsing and dispatch
StageOf(e) ==
    CASE e.fn = "_import_gui_dependencies" -> 0
      [] e.fn \in {"mss.mss", "sct.grab"} -> 1
      [] e.fn = "client.post" -> 2
      [] OTHER -> 3

StagesInOrder == \A i, j \in 1..Len(ops) : i < j => StageOf(ops[i]) <= StageOf(ops[j])

\* the result of a failed invocation
FailureReported ==
    pc = "failure" =>
        /\ ret.success = FALSE
        /\ ret.error # None
        /\ ret.image_size = None
        /\ ret.response = None
        /\ ret.execution_result = None
        /\ ret.action_triggered = FALSE

\* an injection comes after a capture that grabbed the screen and a model
\* call that gave a response
InjectionAfterObservation ==
    \A j \in 1..Len(ops) :
        ops[j].fn \in InjectionFns =>
            /\ \E i, k \in 1..(j - 1) :
                  /\ i < k
                  /\ ops[i].fn = "sct.grab" /\ Len(ops[i].nums) = 3
                  /\ ops[k].fn = "client.post"
            /\ arg.image_width > 0
            /\ response # << >>

OneModelCall == Len(SelectSeq(ops, LAMBDA e : e.fn = "client.post")) <= 1

\* every error raised is caught and made a result
NeverRaises == pc = "raised" => ENABLED Fail

\* a step from a raised error does nothing but return the failure result
NothingAfterFailure == pc = "raised" => (pc' = "failure" /\ ops' = ops)

\* C23: auto_screen_operation always returns a result; the import, the
\* capture, the model call and then parsing and dispatch run in that order; a
\* failure at any of them is followed by no further call and gives a result
\* with success false, an error, no image size, no response, no step log
\* and action_triggered false; every injection comes after a capture and a
\* model call that succeeded; and the model is called at most once.
C23_StagesAndFailures ==
    /\ [](/\ NeverRaises
          /\ StagesInOrder
          /\ FailureReported
          /\ InjectionAfterObservation
          /\ OneModelCall)
    /\ [][NothingAfterFailure]_vars

\* a failed invocation whose dispatcher had logged a step before a call of
\* pyautogui raised
C23_Witness ==
    /\ pc = "failure"
    /\ result_info # << >>
    /\ \E j \in 1..Len(ops) : ops[j].fn \in InjectionFns
    /\ ret.execution_result = None

---------------------------------------------------------------------------
(* The origins of the effective configuration.                             *)

\* the key of the field is in the config file with a text that is not empty
InFile(f) == arg.file.exists /\ arg.file.raw[f].present /\ IsSet(arg.file.raw[f].val)

\* the origin the effective value of the field comes from
OriginOf(f) ==
    IF IsSet(arg.cli[f]) THEN "cli"
    ELSE IF IsSet(arg.environ[f]) THEN "env"
    ELSE IF InFile(f) THEN "config"
    ELSE IF f = "action_parser" THEN "default" ELSE "unset"

\* the effective value of the field is that of its origin
ValueFromOrigin(f) ==
    CASE OriginOf(f) = "cli" -> ret.config[f] = arg.cli[f]
      [] OriginOf(f) = "env" -> ret.config[f] = arg.environ[f]
      [] OriginOf(f) = "config" -> ret.config[f] = arg.file.raw[f].val
      [] OriginOf(f) = "default" -> ret.config[f] = Some(<<"d", "o", "u", "b", "a", "o">>)
      [] OTHER -> ~IsSet(ret.config[f])

\* C25: for each of the five fields the effective value is the text of the
\* command line when that is not empty, else that of the environment when
\* not empty, else that of the config file, with doubao for an action_parser
\* given nowhere, and sources[field] is the origin of that value: cli, env,
\* config, or unset (default for action_parser).
C25_ValueAndSource ==
    pc = "resolved" =>
        \A f \in ConfigFields : ValueFromOrigin(f) /\ ret.sources[f] = OriginOf(f)

\* What holds of C25: the values are as claimed, and so are the sources but
\* for an action_parser that is neither on the command line nor in the
\* environment: its source is default only for a file that has the key with
\* null or the empty text, and config otherwise, also without a file.
ValueAndSourceButDefaultParser ==
    pc = "resolved" =>
        \A f \in ConfigFields :
            /\ ValueFromOrigin(f)
            /\ IF f = "action_parser" /\ OriginOf(f) = "default"
               THEN ret.sources[f] =
                       IF arg.file.exists /\ arg.file.raw[f].present THEN "default" ELSE "config"
               ELSE ret.sources[f] = OriginOf(f)

\* the environment overrode the file and the command line the environment
ValueAndSourceWitness ==
    /\ pc = "resolved"
    /\ ret.sources.api_key = "cli" /\ IsSet(arg.environ.api_key)
    /\ ret.sources.model = "env" /\ InFile("model")

---------------------------------------------------------------------------
(* The commands see and act.                                               *)

\* a run of see or act, from a command line that was accepted
RunOf(command) == arg.line = AcceptedLine /\ arg.command = command

ExecutionDisabled == RunOf("see") \/ (RunOf("act") /\ arg.no_exec)

ParserFns == {"parser", "parse_action_to_structure_output"}

\* nothing was parsed and nothing dispatched
NoAction ==
    /\ \A j \in 1..Len(ops) : ops[j].fn \notin InjectionFns \cup ParserFns \cup {"time.sleep"}
    /\ action_strings = << >>
    /\ parsed_all = << >>
    /\ responses = << >>
    /\ result_info = << >>

\* the payload of an analysis without execution
AnalysisReported(payload) ==
    /\ payload.code = "ANALYSIS_DONE"
    /\ payload.data.execution.executed = FALSE
    /\ payload.data.execution.action_triggered = FALSE
    /\ payload.data.execution.steps = << >>

\* the payload of a run of act that executed
ActionReported(payload) ==
    /\ payload.code = "ACTION_DONE"
    /\ payload.data.execution.executed = TRUE
    /\ \E j \in 1..Len(ops) : ops[j].fn = "time.sleep" /\ ops[j].nums = <<ExecutionDelayMs>>
    /\ action_strings # << >>

Exited == pc = "exit" /\ ret.raised = None

\* C24 as stated: with execution disabled nothing is parsed or dispatched and
\* the result is always ANALYSIS_DONE with executed false, action_triggered
\* false and no step.
C24_DisabledAlwaysAnalysis ==
    /\ ExecutionDisabled => NoAction
    /\ (Exited /\ ExecutionDisabled) => AnalysisReported(ret.payload.v)

\* the payload of a run that did not come to its result
FailureCodes == {"CONFIG_MISSING", "CONFIG_INVALID", "ACTION_FAILED", "UNHANDLED_ERROR"}

\* C24: see never executes and act executes unless --no-exec is given: with
\* execution disabled nothing is parsed, nothing is dispatched and no
\* injection is made, and a run that succeeds reports ANALYSIS_DONE with
\* executed false, action_triggered false and no step, while a run that fails
\* (configuration, capture, model call) reports its failure; a run of act
\* without --no-exec that succeeds has parsed the response after the delay
\* and reports ACTION_DONE with executed true.
C24_NoExecutionWhenDisabled ==
    /\ ExecutionDisabled => NoAction
    /\ (Exited /\ ExecutionDisabled) =>
          IF ret.payload.v.ok THEN AnalysisReported(ret.payload.v)
          ELSE ret.payload.v.code \in FailureCodes
    /\ (Exited /\ RunOf("act") /\ ~arg.no_exec /\ ret.payload.v.ok) =>
          ActionReported(ret.payload.v)

\* act --no-exec with an answer of the model that names a click
C24_Witness ==
    /\ Exited
    /\ RunOf("act") /\ arg.no_exec
    /\ ret.payload.v.code = "ANALYSIS_DONE"
    /\ contains(response, <<"c", "l", "i", "c", "k">>)

---------------------------------------------------------------------------
(* The entry point main.                                                   *)

Emits == SelectSeq(ops, LAMBDA e : e.fn = "emit_json")

\* main has returned code after it emitted one payload, which is ret.payload
ReturnedWithOnePayload ==
    /\ ret.raised = None
    /\ Len(Emits) = 1
    /\ Some(Emits[1].payload) = ret.payload
    /\ ret.code = IF ret.payload.v.ok THEN Some(0) ELSE Some(2)

\* the value given for the field at its origin, None when it is given nowhere
GivenValue(f) ==
    CASE OriginOf(f) = "cli" -> arg.cli[f]
      [] OriginOf(f) = "env" -> arg.environ[f]
      [] OriginOf(f) = "config" -> arg.file.raw[f].val
      [] OTHER -> None

\* no api key, or the custom parser selected without a callable
Misconfigured ==
    \/ GivenValue("api_key") = None
    \/ GivenValue("action_parser") = Some(<<"c", "u", "s", "t", "o", "m">>) /\ GivenValue("action_parser_callable") = None

\* the run failed with a config error (or on a config file that cannot be
\* read) and nothing of the automation was started
ConfigErrorBeforeAutomation ==
    /\ ret.payload.v.code \in {"CONFIG_MISSING", "CONFIG_INVALID", "UNHANDLED_ERROR"}
    /\ ret.payload.v.code = "UNHANDLED_ERROR" => arg.file.exists
    /\ ret.code = Some(2)
    /\ ops = <<Emits[1]>>
    /\ _mss_instance = None /\ response = << >>

ExceptionReported ==
    pc = "except" =>
        /\ pc' = "exit"
        /\ ret'.payload.v.code = "UNHANDLED_ERROR" /\ ~ret'.payload.v.ok
        /\ ret'.code = Some(2)
        /\ Len(SelectSeq(ops', LAMBDA e : e.fn = "emit_json")) = 1

====
